---- MODULE Spec2Model ----
(***************************************************************************)
(* Model of the FTP retrieval client (cnxwm/ftpclient): the MainWindow     *)
(* session state, the recursive directory-download planner and the         *)
(* timer-driven download queue of src/mainwindow.cpp.                      *)
(*                                                                         *)
(* Strings (QString paths and names) are sequences of one-character        *)
(* strings, so that prefix, suffix and concatenation are what the code     *)
(* computes: "/a/" is <<"/", "a", "/">>.                                   *)
(***************************************************************************)
EXTENDS Integers, Sequences, FiniteSets, TLC

VARIABLES
    \* --- session state (MainWindow members)
    isConnected,          \* bool isConnected
    currentPath,          \* QString currentPath
    directoryHistory,     \* QStack<QString> directoryHistory
    fileModel,            \* rows of QStandardItemModel *fileModel
    listBuffer,           \* QStringList listBuffer: the lines WriteCallback
                          \* received since the buffer was last cleared
    \* --- download queue state (MainWindow members)
    downloadQueue,        \* QQueue<DownloadTask> downloadQueue
    isDownloading,        \* bool isDownloading
    timerActive,          \* downloadTimer->isActive()
    pendingShots,         \* posted QTimer::singleShot(0, processNextDownloadTask)
    currentDownloadFile,  \* QFile *currentDownloadFile: NullFile or <<id>>, the
                          \* QFile opened for the task with that id
    totalBytesReceived,   \* qint64 totalBytesReceived (in chunks)
    progressDialog,       \* progressDialog != nullptr
    dialogVisible,        \* the window-modal progress dialog is shown
    directoryTaskCount,   \* int directoryTaskCount
    \* --- control: the downloadFile calls that have not returned yet
    stack,                \* innermost last; each frame is one downloadFile
    crashed,              \* the process died on a null currentDownloadFile
    \* --- environment
    remote,               \* the server: directory path -> decoded listing
    listFail,             \* directory paths whose LIST fails at the transport
    mkFail,               \* local paths for which QDir::mkpath fails
    localDirs,            \* local directories that exist
    localFiles,           \* local path -> "partial" | "complete"
    \* --- history (not program state): what happened, for the properties
    nextId,               \* ordinal of the next task enqueued
    started,              \* ids of the tasks the executor started, in order
    events,               \* notifications emitted so far, by kind
    lastList,             \* the last listDirectory call: a bit that flips on
                          \* every call, and whether the LIST succeeded
    lastConnect,          \* the outcome of the last connectToFtp since the
                          \* last disconnect: "none", "ok" or "failed"
    planned,              \* what the last directory planning run did
    \* --- function studies: the specifications of the pure functions
    probe                 \* the function applied last, its argument and result

vars == <<isConnected, currentPath, directoryHistory, fileModel, listBuffer,
          downloadQueue, isDownloading, timerActive, pendingShots,
          currentDownloadFile, totalBytesReceived, progressDialog,
          dialogVisible, directoryTaskCount, stack, crashed,
          remote, listFail, mkFail, localDirs, localFiles,
          nextId, started, events, lastList, lastConnect, planned, probe>>

navVars   == <<isConnected, currentPath, directoryHistory, fileModel,
               listBuffer, lastList, lastConnect>>
envVars   == <<remote, listFail, mkFail>>
fnVars    == <<probe>>
queueVars == <<downloadQueue, isDownloading, timerActive, pendingShots,
               currentDownloadFile, totalBytesReceived, progressDialog,
               dialogVisible, directoryTaskCount, stack, crashed,
               localDirs, localFiles, nextId, started, events, planned>>

----------------------------------------------------------------------------
(* Bounds of the model *)

\* tasks enqueued in one behaviour of the queue specification
MaxTasks == 4
\* data chunks (DownloadCallback calls) one transfer delivers at most
MaxChunks == 2
\* downloadFile calls nested through the progress dialog's event processing
MaxDepth == 2
\* entries of directoryHistory in the navigation specification
MaxHistory == 4
\* cancels in one behaviour of the queue specification
MaxCancels == 1
\* continuations left posted by the transfers of directly called downloadFile
MaxShots == 1

----------------------------------------------------------------------------
(* QString helpers *)

Slash == <<"/">>
Dot == <<".">>
DotDot == <<".", ".">>
NullFile == <<>>

startsWith(s, c) == Len(s) > 0 /\ s[1] = c
endsWith(s, c) == Len(s) > 0 /\ s[Len(s)] = c

\* s is a prefix of t
IsPrefix(s, t) == Len(s) <= Len(t) /\ SubSeq(t, 1, Len(s)) = s
IsProperPrefix(s, t) == IsPrefix(s, t) /\ Len(s) < Len(t)

\* QString::lastIndexOf('/'): 0-based index of the last slash, -1 if none
lastIndexOf(s) ==
    LET hits == {i \in 1..Len(s) : s[i] = "/"}
    IN  IF hits = {} THEN -1
        ELSE (CHOOSE i \in hits : \A j \in hits : j <= i) - 1

\* QFileInfo(path).fileName(): what follows the last slash
fileName(path) == SubSeq(path, lastIndexOf(path) + 2, Len(path))

\* the directory a local file path lies in: what precedes the last slash
localParent(path) == SubSeq(path, 1, lastIndexOf(path))

\* the path with a leading and a trailing slash ensured
normalize(path) ==
    LET p1 == IF startsWith(path, "/") THEN path ELSE Slash \o path
    IN  IF endsWith(p1, "/") THEN p1 ELSE p1 \o Slash

\* QDir::mkpath creates the directory and every missing ancestor
pathAndAncestors(localPath) ==
    {localPath} \cup
    {SubSeq(localPath, 1, k) : k \in {i \in 1..Len(localPath) - 1 :
                                         localPath[i + 1] = "/" /\ i >= 1}}

----------------------------------------------------------------------------
(* Listing lines and the three recognizers                                 *)
(*                                                                         *)
(* A raw listing line is the sequence of its whitespace-separated tokens,  *)
(* each token a non-empty string; the text of a line is its tokens joined  *)
(* by single spaces. The line carries no leading or trailing whitespace    *)
(* and no carriage return, so trimmed() and remove('\r') leave a captured  *)
(* name as it is. The patterns are matched as QRegularExpression::match    *)
(* does: anywhere in the line, leftmost match first.                       *)

Digits == {"0", "1", "2", "3", "4", "5", "6", "7", "8", "9"}
Letters ==
    {"a", "b", "c", "d", "e", "f", "g", "h", "i", "j", "k", "l", "m", "n", "o", "p", "q", "r", "s", "t", "u", "v", "w", "x", "y", "z",
     "A", "B", "C", "D", "E", "F", "G", "H", "I", "J", "K", "L", "M", "N", "O", "P", "Q", "R", "S", "T", "U", "V", "W", "X", "Y", "Z"}
\* \w, \d and [\d:] of the patterns
WordChars == Letters \cup Digits \cup {"_"}
TimeChars == Digits \cup {":"}
PermChars == {"r", "w", "x", "-"}
TypeChars == {"d", "-"}

\* the token is non-empty and all its characters are of the class
AllIn(tok, class) == Len(tok) > 0 /\ \A k \in 1..Len(tok) : tok[k] \in class

Min(S) == CHOOSE x \in S : \A y \in S : x <= y

\* the text of the tokens joined by single spaces
RECURSIVE join(_)
join(tokens) ==
    IF tokens = <<>> THEN <<>>
    ELSE IF Len(tokens) = 1 THEN tokens[1]
    ELSE tokens[1] \o <<" ">> \o join(Tail(tokens))

\* QString::contains(".")
contains(s, c) == \E k \in 1..Len(s) : s[k] = c

\* the value of one decimal digit
digitValue(c) ==
    CASE c = "0" -> 0 [] c = "1" -> 1 [] c = "2" -> 2 [] c = "3" -> 3
      [] c = "4" -> 4 [] c = "5" -> 5 [] c = "6" -> 6 [] c = "7" -> 7
      [] c = "8" -> 8 [] c = "9" -> 9

\* QString::toLongLong: the value of a string of decimal digits, 0 for any
\* other string (the sizes of the model stay far below 2^63)
RECURSIVE digitsValue(_)
digitsValue(s) ==
    IF s = <<>> THEN 0
    ELSE 10 * digitsValue(SubSeq(s, 1, Len(s) - 1)) + digitValue(s[Len(s)])
toLongLong(s) == IF AllIn(s, Digits) THEN digitsValue(s) ELSE 0

\* unixRe matches with its first group in token i: the token ends in
\* [d-][rwx-]{9}, then come \d+ \w+ \w+ \d+, the date \w+ \d+ [\d:]+, and
\* at least one more token for (.+)
unixReAt(line, i) ==
    /\ i + 8 <= Len(line)
    /\ Len(line[i]) >= 10
    /\ line[i][Len(line[i]) - 9] \in TypeChars
    /\ \A k \in (Len(line[i]) - 8)..Len(line[i]) : line[i][k] \in PermChars
    /\ AllIn(line[i + 1], Digits)
    /\ AllIn(line[i + 2], WordChars)
    /\ AllIn(line[i + 3], WordChars)
    /\ AllIn(line[i + 4], Digits)
    /\ AllIn(line[i + 5], WordChars)
    /\ AllIn(line[i + 6], Digits)
    /\ AllIn(line[i + 7], TimeChars)

\* the captured groups 1, 6, 7, 8 of unixRe matching at token i
unixCaptured(line, i) ==
    [hasMatch |-> TRUE,
     type |-> line[i][Len(line[i]) - 9],
     size |-> line[i + 4],
     date |-> join(SubSeq(line, i + 5, i + 7)),
     name |-> join(SubSeq(line, i + 8, Len(line)))]

\* the leftmost of the positions hits, or no match
leftmost(hits) == IF hits = {} THEN 0 ELSE Min(hits)

\* unixRe.match(line): hasMatch and the captured groups
unixMatch(line, i) ==
    IF i = 0 THEN [hasMatch |-> FALSE] ELSE unixCaptured(line, i)
unixRe(line) ==
    unixMatch(line, leftmost({i \in 1..Len(line) : unixReAt(line, i)}))

\* windowsRe matches with its first group in token i: the token ends in
\* \d{2}-\d{2}-\d{2}, the next is \d{2}:\d{2}[AP]M, the next <DIR> or \d+,
\* and at least one more token for (.+)
windowsReAt(line, i) ==
    /\ i + 3 <= Len(line)
    /\ Len(line[i]) >= 8
    /\ LET d == SubSeq(line[i], Len(line[i]) - 7, Len(line[i]))
       IN  /\ \A k \in {1, 2, 4, 5, 7, 8} : d[k] \in Digits
           /\ d[3] = "-" /\ d[6] = "-"
    /\ LET t == line[i + 1]
       IN  /\ Len(t) = 7
           /\ \A k \in {1, 2, 4, 5} : t[k] \in Digits
           /\ t[3] = ":" /\ t[6] \in {"A", "P"} /\ t[7] = "M"
    /\ line[i + 2] = <<"<", "D", "I", "R", ">">> \/ AllIn(line[i + 2], Digits)

\* the captured groups 1, 2, 3, 4 of windowsRe matching at token i
windowsCaptured(line, i) ==
    [hasMatch |-> TRUE,
     date |-> SubSeq(line[i], Len(line[i]) - 7, Len(line[i])),
     time |-> line[i + 1],
     size |-> line[i + 2],
     name |-> join(SubSeq(line, i + 3, Len(line)))]

\* windowsRe.match(line): hasMatch and the captured groups
windowsMatch(line, i) ==
    IF i = 0 THEN [hasMatch |-> FALSE] ELSE windowsCaptured(line, i)
windowsRe(line) ==
    windowsMatch(line, leftmost({i \in 1..Len(line) : windowsReAt(line, i)}))

\* simpleRe matches with its first group at character k of token i: a 'd'
\* or '-' followed by at least one more character of the token, with at
\* least two tokens behind it; (.+)$ is then the last token
simpleReAt(line, i, k) ==
    /\ i + 2 <= Len(line)
    /\ k < Len(line[i])
    /\ line[i][k] \in TypeChars

\* the captured groups 1, 2 of simpleRe matching in token i
simpleCaptured(line, i) ==
    [hasMatch |-> TRUE,
     type |-> line[i][Min({k \in 1..Len(line[i]) : simpleReAt(line, i, k)})],
     name |-> line[Len(line)]]

\* simpleRe.match(line): hasMatch and the captured groups
simpleMatch(line, i) ==
    IF i = 0 THEN [hasMatch |-> FALSE] ELSE simpleCaptured(line, i)
simpleRe(line) ==
    simpleMatch(line, leftmost({i \in 1..Len(line) :
                                  \E k \in 1..Len(line[i]) : simpleReAt(line, i, k)}))

----------------------------------------------------------------------------
(* Local filesystem and task queue primitives *)

\* the mutation "the directory is reported created but not made"
createLocalDirectoryNoMkpath(localPath, dirs) == [ok |-> TRUE, dirs |-> dirs]

\* MainWindow::createLocalDirectory on the directory set dirs:
\* an existing directory is success, otherwise mkpath decides
createLocalDirectory(localPath, dirs) ==
    IF localPath \in dirs
    THEN [ok |-> TRUE, dirs |-> dirs]
    ELSE IF localPath \in mkFail
         THEN [ok |-> FALSE, dirs |-> dirs]
         ELSE [ok |-> TRUE, dirs |-> dirs \cup pathAndAncestors(localPath)]

\* struct DownloadTask, with the ordinal of its enqueue as id
DownloadTask(id, remotePath, localPath, isDirectory, fileSize, displayName) ==
    [id |-> id, remotePath |-> remotePath, localPath |-> localPath,
     isDirectory |-> isDirectory, fileSize |-> fileSize,
     displayName |-> displayName]

\* MainWindow::addDownloadTask on the planning state st
\* (st.queue is downloadQueue, st.nextId the enqueue ordinal)
addDownloadTask(remotePath, localPath, isDirectory, displayName, fileSize, st) ==
    [st EXCEPT
        !.queue = Append(@, DownloadTask(st.nextId, remotePath, localPath,
                     isDirectory, fileSize,
                     IF displayName = <<>> THEN fileName(remotePath)
                                           ELSE displayName)),
        !.nextId = @ + 1]

----------------------------------------------------------------------------
(* The receive buffer of the listings                                      *)
(*                                                                         *)
(* listBuffer holds the data the transport delivered, as whole lines; a    *)
(* listing request that fails delivers none.                               *)

\* the mutation "the buffer is not cleared before a listing"
clearKept(buffer) == buffer

\* listBuffer.clear()
clear(buffer) == <<>>

\* MainWindow::WriteCallback: the data received is appended to the buffer
WriteCallback(buffer, data) == buffer \o data

----------------------------------------------------------------------------
(* The line decoding of the download planner *)

\* a decoded line: skip is the `continue` of the loop
Entry(skip, name, isDir, fileSize) ==
    [skip |-> skip, name |-> name, isDir |-> isDir, fileSize |-> fileSize]

\* the test that skips ".", ".." and the empty name
skipped(name) == name = Dot \/ name = DotDot \/ name = <<>>

\* the entry each of the four rules of listDirectoryForDownload decodes
unixEntry(u) == Entry(skipped(u.name), u.name, u.type = "d", toLongLong(u.size))
windowsEntry(w) ==
    Entry(skipped(w.name), w.name, w.size = <<"<", "D", "I", "R", ">">>,
          IF w.size = <<"<", "D", "I", "R", ">">> THEN 0 ELSE toLongLong(w.size))
simpleEntry(m) == Entry(skipped(m.name), m.name, m.type = "d", 0)
splitEntry(last) == Entry(skipped(last), last, ~contains(last, "."), 0)

\* the nested tests of the loop on the three match results u, w, m
decodeMatches(line, u, w, m) ==
    IF u.hasMatch THEN unixEntry(u)
    ELSE IF w.hasMatch THEN windowsEntry(w)
    ELSE IF m.hasMatch THEN simpleEntry(m)
    ELSE IF Len(line) >= 1 THEN splitEntry(line[Len(line)])
    ELSE Entry(TRUE, <<>>, FALSE, 0)

\* the head of the loop of MainWindow::listDirectoryForDownload: the line
\* decoded by the first pattern that matches, in the order Unix, Windows,
\* simple, whitespace split; "." and ".." and an empty name are skipped
decodeLine(line) ==
    decodeMatches(line, unixRe(line), windowsRe(line), simpleRe(line))

\* --- the same loop head in FtpClient::listDirectoryForDownload. The size
\* is read for files only, only "." and ".." are skipped, and the whitespace
\* split rule decides the kind by listing the entry as a directory: listed
\* is whether FtpClient::listDirectory(normalizedPath + name) returned lines
FtpClient_special(name) == name = Dot \/ name = DotDot
FtpClient_unixEntry(u) ==
    Entry(FtpClient_special(u.name), u.name, u.type = "d",
          IF u.type = "d" THEN 0 ELSE toLongLong(u.size))
FtpClient_windowsEntry(w) ==
    Entry(FtpClient_special(w.name), w.name, w.size = <<"<", "D", "I", "R", ">">>,
          IF w.size = <<"<", "D", "I", "R", ">">> THEN 0 ELSE toLongLong(w.size))
FtpClient_simpleEntry(m) ==
    Entry(FtpClient_special(m.name), m.name, m.type = "d", 0)
FtpClient_splitEntry(last, listed) ==
    Entry(FtpClient_special(last), last,
          IF FtpClient_special(last) THEN FALSE ELSE listed, 0)

FtpClient_decodeMatches(line, listed, u, w, m) ==
    IF u.hasMatch THEN FtpClient_unixEntry(u)
    ELSE IF w.hasMatch THEN FtpClient_windowsEntry(w)
    ELSE IF m.hasMatch THEN FtpClient_simpleEntry(m)
    ELSE IF Len(line) >= 1 THEN FtpClient_splitEntry(line[Len(line)], listed)
    ELSE Entry(TRUE, <<>>, FALSE, 0)

FtpClient_decodeLine(line, listed) ==
    FtpClient_decodeMatches(line, listed, unixRe(line), windowsRe(line),
                            simpleRe(line))

----------------------------------------------------------------------------
(* The recursive download planner *)

\* The planning state threaded through the recursion:
\*   queue, nextId : downloadQueue and the enqueue ordinal
\*   dirs          : the local directories that exist
\*   count         : directoryTaskCount
\*   listed        : remote directories whose listing was requested and succeeded
\*   listFailed    : remote directories whose listing was requested and failed
\*   mkdirFailed   : local paths whose creation failed during planning
\*   buffer        : listBuffer
\*   rows          : fileModel
\*   low           : the smallest value directoryTaskCount took in the run
PlanState(queue, id, dirs, count) ==
    [queue |-> queue, nextId |-> id, dirs |-> dirs, count |-> count,
     listed |-> {}, listFailed |-> {}, mkdirFailed |-> {},
     buffer |-> listBuffer, rows |-> fileModel, low |-> count]

RECURSIVE listDirectoryForDownload(_, _, _)
RECURSIVE forEachLine(_, _, _, _)

\* the mutation "enqueue the directory task after its subtree"
planEntryPostOrder(line, normalizedPath, targetDir, st) ==
    LET e == decodeLine(line)
        name == e.name
        itemRemote0 == normalizedPath \o name
        itemRemotePath == IF e.isDir /\ ~endsWith(itemRemote0, "/")
                          THEN itemRemote0 \o Slash ELSE itemRemote0
        itemLocalPath == targetDir \o Slash \o name
    IN  IF e.skip
        THEN [ok |-> TRUE, st |-> st]
        ELSE IF e.isDir
             THEN LET mk == createLocalDirectory(itemLocalPath, st.dirs)
                      st1 == [st EXCEPT !.count = @ + 1, !.dirs = mk.dirs,
                                 !.mkdirFailed = IF mk.ok THEN @
                                                 ELSE @ \cup {itemLocalPath}]
                      r == listDirectoryForDownload(itemRemotePath, itemLocalPath, st1)
                  IN  [ok |-> r.ok,
                       st |-> addDownloadTask(itemRemotePath, itemLocalPath, TRUE,
                                              name, 0, r.st)]
             ELSE [ok |-> TRUE,
                   st |-> addDownloadTask(itemRemotePath, itemLocalPath, FALSE,
                                          name, e.fileSize, st)]

\* the mutation "the directory path gets no closing slash"
itemRemotePathPlain(normalizedPath, name, isDir) == normalizedPath \o name

\* the remote path of an entry of the listed directory: the directory path
\* and the name, closed by a slash for a directory
itemRemotePath(normalizedPath, name, isDir) ==
    IF isDir /\ ~endsWith(normalizedPath \o name, "/")
    THEN normalizedPath \o name \o Slash
    ELSE normalizedPath \o name

\* One iteration of the loop of listDirectoryForDownload over a raw line:
\* the line is decoded, a skipped line contributes nothing, a directory
\* is created locally, enqueued and recursed into, a file is enqueued.
\* ok is the result of the recursive call (which the loop does not read).
planEntry(line, normalizedPath, targetDir, st) ==
    LET e == decodeLine(line)
        name == e.name
        itemRemote == itemRemotePath(normalizedPath, name, e.isDir)
        itemLocalPath == targetDir \o Slash \o name
    IN  IF e.skip
        THEN [ok |-> TRUE, st |-> st]
        ELSE IF e.isDir
             THEN LET mk == createLocalDirectory(itemLocalPath, st.dirs)
                      st1 == [st EXCEPT !.count = @ + 1, !.dirs = mk.dirs,
                                 !.mkdirFailed = IF mk.ok THEN @
                                                 ELSE @ \cup {itemLocalPath}]
                      st2 == addDownloadTask(itemRemote, itemLocalPath, TRUE,
                                             name, 0, st1)
                  IN  listDirectoryForDownload(itemRemote, itemLocalPath, st2)
             ELSE [ok |-> TRUE,
                   st |-> addDownloadTask(itemRemote, itemLocalPath, FALSE,
                                          name, e.fileSize, st)]

\* the mutation "stop at the first subdirectory whose planning failed"
forEachLineAbortOnFailure(lines, normalizedPath, targetDir, st) ==
    IF lines = <<>> THEN st
    ELSE LET r == planEntry(Head(lines), normalizedPath, targetDir, st)
         IN  IF r.ok THEN forEachLine(Tail(lines), normalizedPath, targetDir, r.st)
                     ELSE r.st

\* the mutation "the lines are planned from the last to the first"
forEachLineReversed(lines, normalizedPath, targetDir, st) ==
    IF lines = <<>> THEN st
    ELSE planEntry(Head(lines), normalizedPath, targetDir,
                   forEachLine(Tail(lines), normalizedPath, targetDir, st)).st

\* the for loop of listDirectoryForDownload: every line, in listing order
forEachLine(lines, normalizedPath, targetDir, st) ==
    IF lines = <<>> THEN st
    ELSE forEachLine(Tail(lines), normalizedPath, targetDir,
                     planEntry(Head(lines), normalizedPath, targetDir, st).st)

\* the mutation "the planner shows the listing it received"
listDirectoryForDownloadShown(path, targetDir, st) ==
    LET normalizedPath == normalize(path)
    IN  IF ~isConnected
        THEN [ok |-> FALSE, st |-> st]
        ELSE IF normalizedPath \notin DOMAIN remote \/ normalizedPath \in listFail
             THEN [ok |-> FALSE,
                   st |-> [st EXCEPT !.listFailed = @ \cup {normalizedPath},
                                     !.buffer = clear(@), !.rows = <<>>]]
             ELSE LET st1 == [st EXCEPT !.listed = @ \cup {normalizedPath},
                                        !.buffer = WriteCallback(clear(@),
                                                       remote[normalizedPath]),
                                        !.rows = <<>>]
                      st2 == forEachLine(st1.buffer, normalizedPath,
                                         targetDir, st1)
                  IN  [ok |-> TRUE, st |-> [st2 EXCEPT !.count = @ - 1]]

\* MainWindow::listDirectoryForDownload(path, targetDir)
listDirectoryForDownload(path, targetDir, st) ==
    LET normalizedPath == normalize(path)
    IN  IF ~isConnected
        THEN [ok |-> FALSE, st |-> st]
        ELSE IF normalizedPath \notin DOMAIN remote \/ normalizedPath \in listFail
             THEN [ok |-> FALSE,
                   st |-> [st EXCEPT !.listFailed = @ \cup {normalizedPath},
                                     !.buffer = clear(@)]]
             ELSE LET st1 == [st EXCEPT !.listed = @ \cup {normalizedPath},
                                        !.buffer = WriteCallback(clear(@),
                                                       remote[normalizedPath])]
                      st2 == forEachLine(st1.buffer, normalizedPath,
                                         targetDir, st1)
                  IN  [ok |-> TRUE,
                       st |-> [st2 EXCEPT !.count = @ - 1,
                                          !.low = Min({@, st2.count - 1})]]

\* the mutation "the root directory is not counted"
downloadDirectoryUncounted(remotePath, localPath, st) ==
    listDirectoryForDownload(remotePath, localPath,
        addDownloadTask(remotePath, localPath, TRUE, <<>>, 0, st))

\* MainWindow::downloadDirectory(remotePath, localPath)
downloadDirectory(remotePath, localPath, st) ==
    LET st1 == addDownloadTask(remotePath, localPath, TRUE, <<>>, 0, st)
        st2 == [st1 EXCEPT !.count = @ + 1]
    IN  listDirectoryForDownload(remotePath, localPath, st2)

----------------------------------------------------------------------------
(* The download planner of FtpClient                                       *)
(*                                                                         *)
(* The planning state threaded through the recursion:                      *)
(*   queue       : *taskQueue                                              *)
(*   dirs        : the local directories that exist                        *)
(*   transfers   : the remote paths given to FtpClient::downloadFile       *)
(*   listed, listFailed, mkdirFailed : as for the planner of the window    *)
(* The call's inputs are the record in: connected is m_isConnected,        *)
(* hasQueue is taskQueue != nullptr, xferOk the result of the downloadFile *)
(* calls made when there is no queue.                                      *)

ClientState(dirs) ==
    [queue |-> <<>>, dirs |-> dirs, transfers |-> <<>>,
     listed |-> {}, listFailed |-> {}, mkdirFailed |-> {}]

\* FtpClient::createLocalDirectory: mkpath decides
FtpClient_createLocalDirectory(localPath, dirs) ==
    IF localPath \in mkFail
    THEN [ok |-> FALSE, dirs |-> dirs]
    ELSE [ok |-> TRUE, dirs |-> dirs \cup pathAndAncestors(localPath)]

\* FtpClient::listDirectory: the lines received, none when not connected or
\* when the LIST fails
FtpClient_listDirectory(path, connected) ==
    IF connected /\ normalize(path) \in DOMAIN remote
                 /\ normalize(path) \notin listFail
    THEN remote[normalize(path)]
    ELSE <<>>

\* the last whitespace-separated part of the line
lastPart(line) == IF Len(line) >= 1 THEN line[Len(line)] ELSE <<>>

RECURSIVE FtpClient_listDirectoryForDownload(_, _, _, _)
RECURSIVE FtpClient_forEachLine(_, _, _, _, _)

\* the file branch of the loop: the task is enqueued when a queue is given,
\* the file is downloaded at once when none is
FtpClient_fileEntry(name, fileSize, normalizedPath, targetDir, in, acc) ==
    IF in.hasQueue
    THEN [ok |-> acc.ok,
          st |-> [acc.st EXCEPT !.queue = Append(@,
                     [remotePath |-> normalizedPath \o name,
                      localPath |-> targetDir \o Slash \o name,
                      isDirectory |-> FALSE, fileSize |-> fileSize,
                      displayName |-> name])]]
    ELSE [ok |-> acc.ok /\ in.xferOk,
          st |-> [acc.st EXCEPT !.transfers = Append(@, normalizedPath \o name)]]

\* One iteration of the loop of FtpClient::listDirectoryForDownload on the
\* decoded entry e; acc.ok is the variable success
FtpClient_planEntry(e, normalizedPath, targetDir, in, acc) ==
    LET newRemotePath == normalizedPath \o e.name
        newLocalPath == targetDir \o Slash \o e.name
    IN  IF e.skip THEN acc
        ELSE IF e.isDir
             THEN LET mk == FtpClient_createLocalDirectory(newLocalPath,
                                                          acc.st.dirs)
                  IN  IF ~mk.ok
                      THEN [ok |-> FALSE,
                            st |-> [acc.st EXCEPT
                                       !.mkdirFailed = @ \cup {newLocalPath}]]
                      ELSE LET r == FtpClient_listDirectoryForDownload(
                                        newRemotePath, newLocalPath, in,
                                        [acc.st EXCEPT !.dirs = mk.dirs])
                           IN  [ok |-> r.ok /\ acc.ok, st |-> r.st]
             ELSE FtpClient_fileEntry(e.name, e.fileSize, normalizedPath,
                                      targetDir, in, acc)

\* the for loop of FtpClient::listDirectoryForDownload; the whitespace split
\* rule lists normalizedPath + name to tell a directory from a file
FtpClient_forEachLine(lines, normalizedPath, targetDir, in, acc) ==
    IF lines = <<>> THEN acc
    ELSE FtpClient_forEachLine(Tail(lines), normalizedPath, targetDir, in,
             FtpClient_planEntry(
                 FtpClient_decodeLine(Head(lines),
                     FtpClient_listDirectory(normalizedPath \o lastPart(Head(lines)),
                                             in.connected) # <<>>),
                 normalizedPath, targetDir, in, acc))

\* FtpClient::listDirectoryForDownload(path, targetDir, _, taskQueue)
FtpClient_listDirectoryForDownload(path, targetDir, in, st) ==
    LET normalizedPath == normalize(path)
    IN  IF ~in.connected
        THEN [ok |-> FALSE,
              st |-> [st EXCEPT !.listFailed = @ \cup {normalizedPath}]]
        ELSE IF normalizedPath \notin DOMAIN remote \/ normalizedPath \in listFail
             THEN [ok |-> FALSE,
                   st |-> [st EXCEPT !.listFailed = @ \cup {normalizedPath}]]
             ELSE FtpClient_forEachLine(remote[normalizedPath], normalizedPath,
                      targetDir, in,
                      [ok |-> TRUE,
                       st |-> [st EXCEPT !.listed = @ \cup {normalizedPath}]])

\* FtpClient::downloadDirectory(remotePath, localPath, _, taskQueue)
FtpClient_downloadDirectory(remotePath, localPath, in, st) ==
    LET mk == FtpClient_createLocalDirectory(localPath, st.dirs)
    IN  IF ~mk.ok
        THEN [ok |-> FALSE,
              st |-> [st EXCEPT !.mkdirFailed = @ \cup {localPath}]]
        ELSE FtpClient_listDirectoryForDownload(remotePath, localPath, in,
                                                [st EXCEPT !.dirs = mk.dirs])

----------------------------------------------------------------------------
(* Session: connect, disconnect, navigation *)

RootPath == Slash

\* the mutation "the parent is returned without its trailing slash"
getParentDirectoryNoSlash(path) ==
    IF path = Slash \/ path = <<>> THEN Slash
    ELSE LET workPath == IF endsWith(path, "/")
                         THEN SubSeq(path, 1, Len(path) - 1) ELSE path
             lastSlash == lastIndexOf(workPath)
         IN  IF lastSlash > 0 THEN SubSeq(workPath, 1, lastSlash) ELSE Slash

\* the mutation "only the closing slash is removed"
getParentDirectoryChopOnly(path) ==
    IF path = Slash \/ path = <<>> THEN Slash
    ELSE IF endsWith(path, "/") THEN SubSeq(path, 1, Len(path) - 1) ELSE path

\* FtpClient::getParentDirectory
FtpClient_getParentDirectory(path) ==
    IF path = Slash \/ path = <<>> THEN Slash
    ELSE LET workPath == IF endsWith(path, "/")
                         THEN SubSeq(path, 1, Len(path) - 1) ELSE path
             lastSlash == lastIndexOf(workPath)
         IN  IF lastSlash = 0 THEN Slash
             ELSE IF lastSlash > 0
                  THEN LET parentDir == SubSeq(workPath, 1, lastSlash)
                       IN  IF ~endsWith(parentDir, "/")
                           THEN parentDir \o Slash ELSE parentDir
                  ELSE Slash

\* MainWindow::getParentDirectory
getParentDirectory(path) ==
    IF path = Slash \/ path = <<>> THEN Slash
    ELSE LET workPath == IF endsWith(path, "/")
                         THEN SubSeq(path, 1, Len(path) - 1) ELSE path
             lastSlash == lastIndexOf(workPath)
         IN  IF lastSlash = 0 THEN Slash
             ELSE IF lastSlash > 0
                  THEN LET parentDir == SubSeq(workPath, 1, lastSlash)
                       IN  IF ~endsWith(parentDir, "/")
                           THEN parentDir \o Slash ELSE parentDir
                  ELSE Slash

\* QString::remove('\r')
removeCR(s) == SelectSeq(s, LAMBDA c : c # "\r")

\* One row of fileModel: the name, size, type and date columns (the size
\* and the date are texts)
Row(name, size, type, date) ==
    [name |-> name, size |-> size, type |-> type, date |-> date]

\* the row each of the four rules of parseFtpList appends
unixRow(u) ==
    Row(u.name, u.size, IF u.type = "d" THEN "Directory" ELSE "File", u.date)
windowsRow(w) ==
    Row(w.name,
        IF w.size = <<"<", "D", "I", "R", ">">> THEN <<>> ELSE w.size,
        IF w.size = <<"<", "D", "I", "R", ">">> THEN "Directory" ELSE "File",
        w.date \o <<" ">> \o w.time)
simpleRow(m) ==
    Row(m.name, <<>>, IF m.type = "d" THEN "Directory" ELSE "File", <<>>)
splitRow(last) ==
    Row(last, <<>>, IF contains(last, ".") THEN "File" ELSE "Directory", <<>>)

\* the tests of the loop body on the three match results u, w, m, each
\* followed by continue
parseMatches(line, u, w, m) ==
    IF u.hasMatch THEN <<unixRow(u)>>
    ELSE IF w.hasMatch THEN <<windowsRow(w)>>
    ELSE IF m.hasMatch THEN <<simpleRow(m)>>
    ELSE IF Len(line) >= 1 THEN <<splitRow(line[Len(line)])>>
    ELSE <<>>

\* the mutation "the whitespace split is tried first"
parseLineFallbackFirst(line) ==
    IF Len(line) >= 1 THEN <<splitRow(line[Len(line)])>> ELSE <<>>

\* the mutation "a Windows line is always a file"
parseLineWindowsAllFiles(line) ==
    IF unixRe(line).hasMatch THEN <<unixRow(unixRe(line))>>
    ELSE IF windowsRe(line).hasMatch
    THEN <<[windowsRow(windowsRe(line)) EXCEPT !.type = "File"]>>
    ELSE parseLineFallbackFirst(line)

\* the body of the loop of MainWindow::parseFtpList: the rows (one or none)
\* the line appends to fileModel, by the first pattern that matches in the
\* order Unix, Windows, simple, whitespace split
parseLine(line) ==
    parseMatches(line, unixRe(line), windowsRe(line), simpleRe(line))

\* MainWindow::parseFtpList on the raw lines: the rows in line order
RECURSIVE parseFtpList(_)
parseFtpList(lines) ==
    IF lines = <<>> THEN <<>>
    ELSE parseLine(Head(lines)) \o parseFtpList(Tail(lines))

\* the mutation "the parent row is inserted in every directory"
parentRowAlways(path) == <<Row(DotDot, <<>>, "Directory", <<>>)>>

\* the row ".." that listDirectory puts in front of the parsed rows
parentRow(path) ==
    IF path # Slash THEN <<Row(DotDot, <<>>, "Directory", <<>>)>> ELSE <<>>

\* the mutation "every listing pushes the path it leaves"
historyPushAlways(path) == Append(directoryHistory, currentPath)

\* the head of listDirectory: directoryHistory.push(currentPath) when the
\* path asked for is not the current one
historyPush(path) ==
    IF path # currentPath THEN Append(directoryHistory, currentPath)
                          ELSE directoryHistory

\* MainWindow::listDirectory(path) from the connected state; res is the
\* CURLcode of the LIST request ("ok" or "error"); listing a directory the
\* server does not have is an error too
listDirectory(path, res) ==
    /\ isConnected
    /\ LET cleanPath == removeCR(path)
           ok == res = "ok" /\ normalize(cleanPath) \in DOMAIN remote
       IN  /\ directoryHistory' = historyPush(path)
           /\ currentPath' = cleanPath
           /\ listBuffer' =
                IF ok
                THEN WriteCallback(clear(listBuffer), remote[normalize(cleanPath)])
                ELSE clear(listBuffer)
           /\ fileModel' =
                IF ok THEN parentRow(path) \o parseFtpList(listBuffer') ELSE <<>>
           /\ lastList' = [seq |-> ~lastList.seq, ok |-> ok]
    /\ UNCHANGED <<isConnected, lastConnect>>

\* the main window takes input: no handler of the queue is on the call
\* stack (or the innermost one is processing events), and the window-modal
\* progress dialog does not block it
WindowInput ==
    /\ ~crashed
    /\ IF stack = <<>> THEN TRUE ELSE stack[Len(stack)].pc = "events"
    /\ ~dialogVisible

\* listBuffer after the listing of the root that a successful connect
\* makes: the roundtrip of connectToFtp has appended what the server sent
\* for the bare server URL (the listing of the root), then listDirectory
\* clears the buffer and receives the listing, or nothing when the LIST fails
rootListing(res) ==
    IF res = "ok" /\ RootPath \in DOMAIN remote
    THEN WriteCallback(clear(WriteCallback(listBuffer, remote[RootPath])),
                       remote[RootPath])
    ELSE clear(listBuffer)

\* the mutation "the result of connectToFtp is not looked at"
onConnectIgnoringResult(ok, res) ==
    /\ WindowInput
    /\ ~isConnected
    /\ isConnected' = TRUE
    /\ directoryHistory' = <<>>
    /\ currentPath' = RootPath
    /\ fileModel' = <<>>
    /\ listBuffer' = <<>>
    /\ lastList' = [seq |-> ~lastList.seq, ok |-> FALSE]
    /\ lastConnect' = IF ok THEN "ok" ELSE "failed"
    /\ UNCHANGED <<queueVars, envVars, fnVars>>

\* the mutation "the listing after a connect pushes the root"
onConnectPushingHistory(ok, res) ==
    /\ WindowInput
    /\ ~isConnected
    /\ ok
    /\ isConnected' = TRUE
    /\ directoryHistory' = <<RootPath>>
    /\ currentPath' = RootPath
    /\ listBuffer' = rootListing(res)
    /\ fileModel' = IF res = "ok" /\ RootPath \in DOMAIN remote
                    THEN parseFtpList(listBuffer') ELSE <<>>
    /\ lastList' = [seq |-> ~lastList.seq,
                    ok |-> res = "ok" /\ RootPath \in DOMAIN remote]
    /\ lastConnect' = "ok"
    /\ UNCHANGED <<queueVars, envVars, fnVars>>

\* MainWindow::onConnectButtonClicked; ok is the result of connectToFtp,
\* res the result of the listing of the root that follows
onConnectButtonClicked(ok, res) ==
    /\ WindowInput
    /\ ~isConnected                      \* the button is enabled
    /\ IF ok
       THEN /\ isConnected' = TRUE
            /\ directoryHistory' = <<>>
            /\ currentPath' = RootPath
            /\ listBuffer' = rootListing(res)
            /\ fileModel' = IF res = "ok" /\ RootPath \in DOMAIN remote
                            THEN parseFtpList(listBuffer') ELSE <<>>
            /\ lastList' = [seq |-> ~lastList.seq,
                            ok |-> res = "ok" /\ RootPath \in DOMAIN remote]
            /\ lastConnect' = "ok"
       ELSE /\ lastConnect' = "failed"
            /\ UNCHANGED <<isConnected, currentPath, directoryHistory,
                           fileModel, listBuffer, lastList>>
    /\ UNCHANGED <<queueVars, envVars, fnVars>>

\* the session state the disconnect handler reads and writes
Session ==
    [isConnected |-> isConnected, currentPath |-> currentPath,
     directoryHistory |-> directoryHistory, fileModel |-> fileModel]

\* the mutation "disconnect remembers where the session was"
afterDisconnectKeepHistory(session) ==
    [isConnected |-> FALSE, currentPath |-> RootPath,
     directoryHistory |-> Append(session.directoryHistory, session.currentPath),
     fileModel |-> <<>>]

\* the body of MainWindow::onDisconnectButtonClicked as a function of the
\* session state: it reads none of it
afterDisconnect(session) ==
    [isConnected |-> FALSE, currentPath |-> RootPath,
     directoryHistory |-> <<>>, fileModel |-> <<>>]

\* MainWindow::onDisconnectButtonClicked
onDisconnectButtonClicked ==
    /\ WindowInput
    /\ isConnected                       \* the button is enabled
    /\ isConnected' = afterDisconnect(Session).isConnected
    /\ currentPath' = afterDisconnect(Session).currentPath
    /\ directoryHistory' = afterDisconnect(Session).directoryHistory
    /\ fileModel' = afterDisconnect(Session).fileModel
    /\ lastConnect' = "none"
    /\ UNCHANGED <<lastList, listBuffer>>
    /\ UNCHANGED <<queueVars, envVars, fnVars>>

\* MainWindow::onBackButtonClicked
onBackButtonClicked(res) ==
    /\ WindowInput
    /\ isConnected
    /\ LET parentDir == getParentDirectory(currentPath)
       IN  IF parentDir # currentPath
           THEN listDirectory(parentDir, res)
           ELSE UNCHANGED navVars
    /\ UNCHANGED <<queueVars, envVars, fnVars>>

\* MainWindow::onRefreshButtonClicked
onRefreshButtonClicked(res) ==
    /\ WindowInput
    /\ isConnected
    /\ listDirectory(currentPath, res)
    /\ UNCHANGED <<queueVars, envVars, fnVars>>

\* MainWindow::onFileTreeViewDoubleClicked on row `row` of the model
onFileTreeViewDoubleClicked(row, res) ==
    /\ WindowInput
    /\ row \in 1..Len(fileModel)
    /\ LET name == removeCR(fileModel[row].name)
           newPath0 ==
               IF name = DotDot THEN getParentDirectory(currentPath)
               ELSE IF name = Dot THEN currentPath
               ELSE IF currentPath = Slash THEN Slash \o name \o Slash
               ELSE IF endsWith(currentPath, "/") THEN currentPath \o name \o Slash
               ELSE currentPath \o Slash \o name \o Slash
           newPath == removeCR(IF startsWith(newPath0, "/") THEN newPath0
                               ELSE Slash \o newPath0)
       IN  IF fileModel[row].type = "Directory"
           THEN IF isConnected THEN listDirectory(newPath, res)
                               ELSE UNCHANGED navVars
           ELSE UNCHANGED navVars
    /\ UNCHANGED <<queueVars, envVars, fnVars>>

----------------------------------------------------------------------------
(* The download queue: enqueue, executor, transfer, cancel *)

\* the local directory the user picks in the save dialog (it exists)
TargetDir == <<"/", "T">>

\* The notifications written to the log (appendLog), by kind:
\*   failed, completed : ids of the file tasks reported failed / downloaded
\*   drained           : number of "all download tasks complete" messages
\*   cancels           : number of "download cancelled" messages
\* and what the log does not say but the properties need:
\*   pending  : ids of the tasks a cancel found in the queue
\*   inflight : local paths of the transfers a cancel found running
\*   errored  : ids of the transfers whose curl_easy_perform returned an error
\*   unguarded : the operations that changed downloadQueue outside the scope
\*               of a QMutexLocker on downloadMutex. enqueue (addDownloadTask)
\*               and dequeue (processNextDownloadTask) run inside one, and
\*               both release it before the next network request
\*   cancelledAt : the enqueue ordinal (nextId) when the last cancel ran, 0
\*                 before any cancel: while nextId still has that value no
\*                 task was enqueued since, and the batch is the cancelled one
NoEvents == [failed |-> {}, completed |-> {}, drained |-> 0, cancels |-> 0,
             pending |-> {}, inflight |-> {}, errored |-> {}, unguarded |-> {},
             cancelledAt |-> 0]
reportFailed(id) == [events EXCEPT !.failed = @ \cup {id}]
reportCompleted(id) == [events EXCEPT !.completed = @ \cup {id}]

\* the event loop is dispatching: no downloadFile is on the call stack, or
\* the innermost one is inside QProgressDialog::setValue processing events
Dispatching ==
    /\ ~crashed
    /\ IF stack = <<>> THEN TRUE ELSE stack[Len(stack)].pc = "events"

\* one downloadFile call inside curl_easy_perform: its task, the number of
\* DownloadCallback calls so far, where it stands, whether a callback
\* returned a count other than the chunk size (curl then aborts the
\* transfer), and (history) the bytesReceived of its last progress report,
\* 0 being the value downloadFile resets the counter to
Frame(task, pc) ==
    [task |-> task, chunks |-> 0, pc |-> pc, writeError |-> FALSE,
     reported |-> 0]

Top == stack[Len(stack)]
Pop == SubSeq(stack, 1, Len(stack) - 1)

markFile(path, what) == (path :> what) @@ localFiles

\* the mutation "the click does not start the timer"
timerAfterClickUnstarted(downloading, active) == active

\* the tail of onDownloadButtonClicked: downloadTimer->start(100) unless a
\* download is already running
timerAfterClick(downloading, active) == IF downloading THEN active ELSE TRUE

\* MainWindow::onDownloadButtonClicked on row `row` of the model
onDownloadButtonClicked(row) ==
    /\ WindowInput
    /\ isConnected
    /\ row \in 1..Len(fileModel)
    /\ LET name == removeCR(fileModel[row].name)
           type == fileModel[row].type
           size == fileModel[row].size
           remotePath0 ==
               IF currentPath = Slash THEN Slash \o name
               ELSE IF endsWith(currentPath, "/") THEN currentPath \o name
               ELSE currentPath \o Slash \o name
           localPath == TargetDir \o Slash \o name
           isDir == type = "Directory"
           remotePath == IF isDir /\ ~endsWith(remotePath0, "/")
                         THEN remotePath0 \o Slash ELSE remotePath0
           st0 == PlanState(downloadQueue, nextId, localDirs, directoryTaskCount)
           mk == createLocalDirectory(localPath, localDirs)
           plan == downloadDirectory(remotePath, localPath,
                                     [st0 EXCEPT !.dirs = mk.dirs, !.count = 0,
                                                 !.low = 0]).st
           one == addDownloadTask(remotePath, localPath, FALSE, name,
                                  toLongLong(size), st0)
       IN  IF name = Dot \/ name = DotDot
           THEN UNCHANGED <<queueVars, listBuffer, fileModel>>
           ELSE /\ progressDialog' = TRUE
                /\ dialogVisible' = TRUE
                /\ IF isDir /\ ~mk.ok
                   THEN \* the early return: nothing enqueued, the timer not started
                        /\ planned' = [root |-> localPath, listed |-> {},
                                       listFailed |-> {},
                                       mkdirFailed |-> {localPath},
                                       lowCount |-> directoryTaskCount]
                        /\ UNCHANGED <<downloadQueue, nextId, localDirs,
                                       directoryTaskCount, isDownloading,
                                       timerActive, listBuffer, fileModel>>
                   ELSE /\ IF isDir
                           THEN /\ downloadQueue' = plan.queue
                                /\ listBuffer' = plan.buffer
                                /\ fileModel' = plan.rows
                                /\ nextId' = plan.nextId
                                /\ localDirs' = plan.dirs
                                /\ directoryTaskCount' = plan.count
                                /\ planned' = [root |-> localPath,
                                               listed |-> plan.listed,
                                               listFailed |-> plan.listFailed,
                                               mkdirFailed |-> plan.mkdirFailed,
                                               lowCount |-> plan.low]
                           ELSE /\ downloadQueue' = one.queue
                                /\ nextId' = one.nextId
                                /\ UNCHANGED <<localDirs, directoryTaskCount,
                                               planned, listBuffer, fileModel>>
                        /\ isDownloading' = TRUE
                        /\ timerActive' = timerAfterClick(isDownloading,
                                                          timerActive)
                /\ UNCHANGED <<pendingShots, currentDownloadFile,
                               totalBytesReceived, stack, crashed, localFiles,
                               started, events>>
        \* the selected name, kept for the properties
    /\ probe' = [fn |-> "onDownloadButtonClicked",
                 name |-> removeCR(fileModel[row].name)]
    /\ UNCHANGED <<isConnected, currentPath, directoryHistory, lastList,
                   lastConnect, envVars>>

\* the mutation "the cancel handler forgets to clear the queue"
onCanceledKeepQueue ==
    /\ Dispatching
    /\ progressDialog /\ dialogVisible
    /\ events' = [events EXCEPT
                     !.cancels = @ + 1,
                     !.cancelledAt = nextId,
                     !.pending = @ \cup {downloadQueue[i].id :
                                            i \in 1..Len(downloadQueue)},
                     !.inflight = @ \cup {stack[i].task.localPath :
                                             i \in 1..Len(stack)}]
    /\ currentDownloadFile' = NullFile
    /\ isDownloading' = FALSE
    /\ timerActive' = FALSE
    /\ dialogVisible' = FALSE
    /\ UNCHANGED <<downloadQueue, pendingShots, totalBytesReceived,
                   progressDialog, directoryTaskCount, stack, crashed,
                   localDirs, localFiles, nextId, started, planned>>
    /\ UNCHANGED <<navVars, envVars, fnVars>>

\* the cancel handler connected to QProgressDialog::canceled
onCanceled ==
    /\ Dispatching
    /\ progressDialog /\ dialogVisible
    /\ events' = [events EXCEPT
                     !.cancels = @ + 1,
                     !.cancelledAt = nextId,
                     !.unguarded = @ \cup {"clear"},
                     !.pending = @ \cup {downloadQueue[i].id :
                                            i \in 1..Len(downloadQueue)},
                     !.inflight = @ \cup {stack[i].task.localPath :
                                             i \in 1..Len(stack)}]
    /\ currentDownloadFile' = NullFile
    /\ downloadQueue' = <<>>
    /\ isDownloading' = FALSE
    /\ timerActive' = FALSE
    /\ dialogVisible' = FALSE
    /\ UNCHANGED <<pendingShots, totalBytesReceived, progressDialog,
                   directoryTaskCount, stack, crashed, localDirs, localFiles,
                   nextId, started, planned>>
    /\ UNCHANGED <<navVars, envVars, fnVars>>

\* the mutation "take the newest task" of the dequeue
dequeueLast(q) ==
    [task |-> q[Len(q)], rest |-> SubSeq(q, 1, Len(q) - 1)]

\* QQueue::dequeue: the head and the remaining queue
dequeue(q) == [task |-> Head(q), rest |-> Tail(q)]

\* the mutation "downloadFile does not test the connection"
downloadFileStartUnguarded(task, outcome, shots) ==
    /\ pendingShots' = shots
    /\ outcome = "ok"
    /\ localParent(task.localPath) \in localDirs
    /\ totalBytesReceived' = 0
    /\ localFiles' = markFile(task.localPath, "partial")
    /\ currentDownloadFile' = <<task.id>>
    /\ stack' = Append(stack, Frame(task, "perform"))
    /\ UNCHANGED events

\* MainWindow::downloadFile up to curl_easy_perform, for the dequeued task:
\* outcome is "ok", "openFail" (QFile::open fails) or "initFail"
\* (curl_easy_init fails); shots is the number of posted continuations
downloadFileStart(task, outcome, shots) ==
    /\ pendingShots' = shots
    /\ IF ~isConnected
       THEN /\ events' = reportFailed(task.id)
            /\ UNCHANGED <<currentDownloadFile, totalBytesReceived, stack,
                           localFiles>>
       ELSE /\ outcome = "ok" => localParent(task.localPath) \in localDirs
            /\ IF outcome = "openFail"
               THEN /\ currentDownloadFile' = NullFile
                    /\ events' = reportFailed(task.id)
                    /\ UNCHANGED <<totalBytesReceived, stack, localFiles>>
               ELSE /\ localParent(task.localPath) \in localDirs
                    /\ totalBytesReceived' = 0
                    /\ localFiles' = markFile(task.localPath, "partial")
                    /\ IF outcome = "initFail"
                       THEN /\ currentDownloadFile' = NullFile
                            /\ events' = reportFailed(task.id)
                            /\ UNCHANGED stack
                       ELSE /\ currentDownloadFile' = <<task.id>>
                            /\ stack' = Append(stack, Frame(task, "perform"))
                            /\ UNCHANGED events

\* MainWindow::processNextDownloadTask; shots is the number of posted
\* continuations left once the event that invoked it is consumed
processNextDownloadTask(outcome, shots) ==
    IF downloadQueue = <<>>
    THEN /\ timerActive' = FALSE
         /\ isDownloading' = FALSE
         /\ events' = [events EXCEPT !.drained = @ + 1]
         /\ pendingShots' = shots
         /\ UNCHANGED <<downloadQueue, currentDownloadFile, totalBytesReceived,
                        stack, localDirs, localFiles, started>>
    ELSE LET d == dequeue(downloadQueue)
             task == d.task
         IN  /\ downloadQueue' = d.rest
             /\ started' = Append(started, task.id)
             /\ UNCHANGED <<timerActive, isDownloading>>
             /\ IF task.isDirectory
                THEN /\ localDirs' = createLocalDirectory(task.localPath,
                                                          localDirs).dirs
                     /\ pendingShots' = shots + 1
                     /\ outcome = "ok"
                     /\ UNCHANGED <<currentDownloadFile, totalBytesReceived,
                                    stack, localFiles, events>>
                ELSE /\ downloadFileStart(task, outcome, shots)
                     /\ UNCHANGED localDirs

Outcomes == {"ok", "openFail", "initFail"}

\* the 100 ms downloadTimer fires
TimerTick ==
    /\ Dispatching
    /\ timerActive
    /\ \E outcome \in Outcomes : processNextDownloadTask(outcome, pendingShots)
    /\ UNCHANGED <<progressDialog, dialogVisible, directoryTaskCount, crashed,
                   nextId, planned>>
    /\ UNCHANGED <<navVars, envVars, fnVars>>

\* a posted QTimer::singleShot(0) continuation fires
Continuation ==
    /\ Dispatching
    /\ pendingShots > 0
    /\ \E outcome \in Outcomes : processNextDownloadTask(outcome, pendingShots - 1)
    /\ UNCHANGED <<progressDialog, dialogVisible, directoryTaskCount, crashed,
                   nextId, planned>>
    /\ UNCHANGED <<navVars, envVars, fnVars>>

\* MainWindow::downloadFile after curl_easy_perform returned res for the
\* innermost transfer: close and delete currentDownloadFile, report, and on
\* success post the continuation. With currentDownloadFile null the close
\* is a call through a null pointer: the process dies (ub = "crash") or
\* runs on (ub = "continue")
downloadFileFinish(res, ub) ==
    LET task == Top.task
        noteError(ev) == IF res = "ok" THEN ev
                         ELSE [ev EXCEPT !.errored = @ \cup {task.id}]
    IN  IF currentDownloadFile = NullFile /\ ub = "crash"
        THEN /\ crashed' = TRUE
             /\ events' = noteError(events)
             /\ UNCHANGED <<currentDownloadFile, stack, localFiles,
                            pendingShots>>
        ELSE /\ currentDownloadFile' = NullFile
             /\ stack' = Pop
             /\ localFiles' = IF res = "ok" /\ currentDownloadFile = <<task.id>>
                              THEN markFile(task.localPath, "complete")
                              ELSE localFiles
             /\ events' = noteError(IF res = "ok" THEN reportCompleted(task.id)
                                                   ELSE reportFailed(task.id))
             /\ pendingShots' = IF res = "ok" THEN pendingShots + 1 ELSE pendingShots
             /\ UNCHANGED crashed

\* curl delivers a chunk to MainWindow::DownloadCallback of the innermost
\* transfer; with a null currentDownloadFile the callback returns 0 and the
\* transfer ends in a write error. written is the result of QFile::write
\* in chunks: 1, or -1 when the write fails. processEvents: the progress
\* update (setValue on the modal dialog) runs the event loop before it
\* returns
DownloadCallback(processEvents, ub, written) ==
    /\ ~crashed
    /\ IF stack = <<>> THEN FALSE ELSE Top.pc = "perform" /\ ~Top.writeError
    /\ Top.chunks < MaxChunks
    /\ IF currentDownloadFile = NullFile
       THEN /\ downloadFileFinish("error", ub)
            /\ processEvents = FALSE
            /\ written = 1
            /\ UNCHANGED totalBytesReceived
       ELSE /\ totalBytesReceived' = totalBytesReceived + written
            /\ processEvents => progressDialog /\ Len(stack) < MaxDepth
            /\ ub = "continue"
            /\ stack' = [stack EXCEPT ![Len(stack)] =
                            [@ EXCEPT !.chunks = @ + 1,
                                      !.writeError = written # 1,
                                      !.reported = totalBytesReceived + written,
                                      !.pc = IF processEvents THEN "events"
                                                              ELSE "perform"]]
            /\ UNCHANGED <<currentDownloadFile, localFiles, events,
                           pendingShots, crashed>>
    /\ UNCHANGED <<downloadQueue, isDownloading, timerActive, progressDialog,
                   dialogVisible, directoryTaskCount, localDirs, nextId,
                   started, planned>>
    /\ UNCHANGED <<navVars, envVars, fnVars>>

\* QCoreApplication::processEvents returns into the progress callback
EventsProcessed ==
    /\ ~crashed
    /\ IF stack = <<>> THEN FALSE ELSE Top.pc = "events"
    /\ stack' = [stack EXCEPT ![Len(stack)] = [@ EXCEPT !.pc = "perform"]]
    /\ UNCHANGED <<downloadQueue, isDownloading, timerActive, pendingShots,
                   currentDownloadFile, totalBytesReceived, progressDialog,
                   dialogVisible, directoryTaskCount, crashed, localDirs,
                   localFiles, nextId, started, events, planned>>
    /\ UNCHANGED <<navVars, envVars, fnVars>>

\* curl_easy_perform of the innermost transfer returns res
TransferReturns(res, ub) ==
    /\ ~crashed
    /\ IF stack = <<>> THEN FALSE ELSE Top.pc = "perform"
    /\ ub = "crash" => currentDownloadFile = NullFile
    /\ Top.writeError => res = "error"
    /\ downloadFileFinish(res, ub)
    /\ UNCHANGED <<downloadQueue, isDownloading, timerActive,
                   totalBytesReceived, progressDialog, dialogVisible,
                   directoryTaskCount, localDirs, nextId, started, planned>>
    /\ UNCHANGED <<navVars, envVars, fnVars>>

----------------------------------------------------------------------------
(* Servers and specifications *)

\* the decimal digits of a natural number
RECURSIVE decimal(_)
decimal(n) ==
    LET d == <<"0", "1", "2", "3", "4", "5", "6", "7", "8", "9">>[(n % 10) + 1]
    IN  IF n < 10 THEN <<d>> ELSE decimal(n \div 10) \o <<d>>

\* the Unix-format lines a server sends for a file and for a directory
File(name, size) ==
    << <<"-", "r", "w", "-", "r", "-", "-", "r", "-", "-">>, <<"1">>,
       <<"f", "t", "p">>, <<"f", "t", "p">>, decimal(size),
       <<"J", "u", "n">>, <<"1", "2">>, <<"1", "2", ":", "0", "0">>, name >>
Dir(name) ==
    << <<"d", "r", "w", "x", "r", "-", "x", "r", "-", "x">>, <<"2">>,
       <<"f", "t", "p">>, <<"f", "t", "p">>, <<"4", "0", "9", "6">>,
       <<"J", "u", "n">>, <<"1", "2">>, <<"1", "2", ":", "0", "0">>, name >>

Pa  == <<"/", "a", "/">>
Pab == <<"/", "a", "/", "b", "/">>
Pac == <<"/", "a", "/", "c", "/">>
Ta  == TargetDir \o <<"/", "a">>
Tab == Ta \o <<"/", "b">>
Tac == Ta \o <<"/", "c">>

\* the state after the MainWindow constructor, on a given server
InitOn(server, lf, mf) ==
    /\ isConnected = FALSE
    /\ currentPath = RootPath
    /\ directoryHistory = <<>>
    /\ fileModel = <<>>
    /\ listBuffer = <<>>
    /\ downloadQueue = <<>>
    /\ isDownloading = FALSE
    /\ timerActive = FALSE
    /\ pendingShots = 0
    /\ currentDownloadFile = NullFile
    /\ totalBytesReceived = 0
    /\ progressDialog = FALSE
    /\ dialogVisible = FALSE
    /\ directoryTaskCount = 0
    /\ stack = <<>>
    /\ crashed = FALSE
    /\ remote = server
    /\ listFail = lf
    /\ mkFail = mf
    /\ localDirs = {TargetDir}
    /\ localFiles = <<>>
    /\ nextId = 1
    /\ started = <<>>
    /\ events = NoEvents
    /\ lastList = [seq |-> FALSE, ok |-> TRUE]
    /\ lastConnect = "none"
    /\ probe = [fn |-> "none"]
    /\ planned = [root |-> <<>>, listed |-> {}, listFailed |-> {},
                  mkdirFailed |-> {}, lowCount |-> 0]

\* --- the download queue: a server with one directory of three files (a
\* batch of four tasks), a server with two files (single-file downloads,
\* restarted after a cancel), and a server with a file in a subdirectory;
\* mkpath fails for nothing, for the local root of the download or for the
\* subdirectory
QueueServers ==
    { (Slash :> <<Dir(<<"a">>)>>)
      @@ (Pa :> <<File(<<"f">>, 1), File(<<"g">>, 1), File(<<"h">>, 1)>>),
      (Slash :> <<File(<<"r">>, 1), File(<<"s">>, 1)>>),
      (Slash :> <<Dir(<<"a">>)>>)
      @@ (Pa :> <<Dir(<<"b">>)>>)
      @@ (Pab :> <<File(<<"g">>, 1)>>) }

InitQueue ==
    \E server \in QueueServers, mf \in {{}, {Ta}, {Tab}} :
        /\ mf = {Tab} => Pab \in DOMAIN server
        /\ InitOn(server, {}, mf)

NextQueue ==
    \/ \E ok \in BOOLEAN : onConnectButtonClicked(ok, "ok")
    \/ \E row \in 1..2 : onDownloadButtonClicked(row) /\ nextId' <= MaxTasks + 1
    \/ onCanceled /\ events.cancels < MaxCancels
    \/ TimerTick
    \/ Continuation
    \/ \E pe \in BOOLEAN, ub \in {"crash", "continue"}, written \in {1, -1} :
           DownloadCallback(pe, ub, written)
    \/ EventsProcessed
    \/ \E res \in {"ok", "error"}, ub \in {"crash", "continue"} :
           TransferReturns(res, ub)

SpecQueue == InitQueue /\ [][NextQueue]_vars

\* the executor is scheduled fairly: pending timer events are delivered and
\* running transfers make progress
FairQueue ==
    SpecQueue /\ WF_vars(TimerTick) /\ WF_vars(Continuation)
              /\ WF_vars(EventsProcessed)
              /\ WF_vars(\E res \in {"ok", "error"}, ub \in {"crash", "continue"} :
                            TransferReturns(res, ub))

\* --- the planner: the directory /a/ over a family of servers
ListingsA ==
    { <<>>,
      <<File(<<"f">>, 100), Dir(<<"b">>)>>,
      <<Dir(<<"b">>), File(<<"f">>, 100)>>,
      <<Dir(<<"b">>), Dir(<<"c">>), File(<<"f">>, 100)>>,
      <<Dir(Dot), Dir(DotDot), Dir(<<"b">>), File(<<"f">>, 100)>> }
ListingsB ==
    { <<>>, <<File(<<"g">>, 50)>>, <<File(<<"g">>, 50), File(<<"h">>, 7)>> }
ListingsC ==
    { <<File(<<"k">>, 1)>> }

PlanServers ==
    { (Slash :> <<Dir(<<"a">>), File(<<"r">>, 1)>>)
      @@ (Pa :> la) @@ (Pab :> lb) @@ (Pac :> lc) :
        la \in ListingsA, lb \in ListingsB, lc \in ListingsC }

InitPlan ==
    \E server \in PlanServers, lf \in SUBSET {Pa, Pab}, mf \in SUBSET {Ta, Tab} :
        InitOn(server, lf, mf)

NextPlan ==
    \/ onConnectButtonClicked(TRUE, "ok")
    \/ \E row \in 1..2 : onDownloadButtonClicked(row)

SpecPlan == InitPlan /\ [][NextPlan]_vars

\* --- navigation: a server of depth two; a download can be planned and
\* cancelled, after which the window takes input again
Pc == <<"/", "c", "/">>

NavServers ==
    { (Slash :> <<Dir(<<"a">>), File(<<"r">>, 1)>>)
      @@ (Pa :> <<Dir(<<"b">>), File(<<"f">>, 1)>>)
      @@ (Pab :> <<File(<<"g">>, 1)>>),
      (Slash :> <<Dir(<<"a">>), Dir(<<"c">>)>>)
      @@ (Pa :> <<Dir(<<"b">>)>>)
      @@ (Pab :> <<>>)
      @@ (Pc :> <<Dir(Dot), Dir(DotDot), File(<<"k">>, 1)>>) }

InitNav == \E server \in NavServers : InitOn(server, {}, {})

Results == {"ok", "error"}

NextNav ==
    \/ \E ok \in BOOLEAN, res \in Results : onConnectButtonClicked(ok, res)
    \/ onDisconnectButtonClicked
    \/ \E res \in Results :
           onBackButtonClicked(res) /\ Len(directoryHistory') <= MaxHistory
    \/ \E res \in Results : onRefreshButtonClicked(res)
    \/ \E row \in 1..3, res \in Results :
           /\ onFileTreeViewDoubleClicked(row, res)
           /\ Len(directoryHistory') <= MaxHistory
    \/ \E row \in 1..3 : onDownloadButtonClicked(row) /\ nextId' <= MaxTasks + 1
    \/ onCanceled /\ events.cancels < MaxCancels

SpecNav == InitNav /\ [][NextNav]_vars

\* --- the parent-path functions on every string over "/" and one letter
MaxPathLen == 7
PathAlphabet == {"/", "a"}
PathInputs == UNION {[1..k -> PathAlphabet] : k \in 0..MaxPathLen}

InitPath == InitOn(CHOOSE server \in NavServers : TRUE, {}, {})

\* getParentDirectory of the window and of the client, applied to one input
ApplyGetParentDirectory ==
    /\ \E path \in PathInputs :
           probe' = [fn |-> "getParentDirectory", arg |-> path,
                     window |-> getParentDirectory(path),
                     client |-> FtpClient_getParentDirectory(path)]
    /\ UNCHANGED <<navVars, queueVars, envVars>>

NextPath == ApplyGetParentDirectory

SpecPath == InitPath /\ [][NextPath]_vars

\* --- the recognizers on a family of listing lines
TokDir   == <<"d", "r", "w", "x", "r", "-", "x", "r", "-", "x">>
TokFile  == <<"-", "r", "w", "-", "r", "-", "-", "r", "-", "-">>
TokLink  == <<"l", "r", "w", "x", "r", "w", "x", "r", "w", "x">>
TokDIR   == <<"<", "D", "I", "R", ">">>
LineNames ==
    { <<<<"u", "p", "l", "o", "a", "d", "s">>>>, <<<<"p", "h", "o", "t", "o", "s">>>>, <<<<"r", "e", "a", "d", "m", "e", ".", "t", "x", "t">>>>,
      <<Dot>>, <<DotDot>>, <<<<"m", "y">>, <<"f", "i", "l", "e", ".", "t", "x", "t">>>> }
\* permissions, link count, owner, group, size, month, day, time, name
UnixLines ==
    { <<perm, <<"2">>, owner, <<"r", "o", "o", "t">>, size, <<"J", "u", "n">>, <<"1", "2">>, <<"1", "2", ":", "0", "0">>>> \o name :
        perm \in {TokDir, TokFile, TokLink},
        owner \in {<<"r", "o", "o", "t">>, <<"f", "t", "p", "-", "u", "s", "e", "r">>},
        size \in {<<"4", "0", "9", "6">>, <<"0">>},
        name \in LineNames }
\* date, time, <DIR> or size, name
WindowsLines ==
    { <<<<"0", "6", "-", "1", "2", "-", "2", "3">>, time, third>> \o name :
        time \in {<<"1", "2", ":", "0", "0", "P", "M">>, <<"1", "2", ":", "0", "0">>},
        third \in {TokDIR, <<"2", "0", "4", "8">>, <<"a", "b", "c">>},
        name \in LineNames }
\* a Unix line behind a Windows date, time and number: both patterns match
MixedLines == { <<<<"0", "6", "-", "1", "2", "-", "2", "3">>, <<"1", "2", ":", "0", "0", "P", "M">>, <<"5">>>> \o line : line \in UnixLines }
\* lines of few tokens: the simple pattern, the whitespace split, no token
ShortLines ==
    { head \o name : head \in { <<>>, <<<<"d", "r", "w", "x">>, <<"1">>>>, <<<<"-", "r", "w", "-">>, <<"1">>>>,
                                <<<<"t", "o", "t", "a", "l">>, <<"1">>>>, <<<<"x">>>> },
                     name \in LineNames } \cup {<<>>}
LineInputs == UnixLines \cup WindowsLines \cup MixedLines \cup ShortLines

InitParse == InitOn(CHOOSE server \in NavServers : TRUE, {}, {})

\* one line given to the loop body of parseFtpList and to the decoding of
\* the two listDirectoryForDownload; listed is the outcome of the listing
\* by which FtpClient tests an entry of the whitespace split rule
ApplyParse ==
    /\ \E line \in LineInputs, listed \in BOOLEAN :
           probe' = [fn |-> "parse", line |-> line,
                     rows |-> parseLine(line), entry |-> decodeLine(line),
                     client |-> FtpClient_decodeLine(line, listed)]
    /\ UNCHANGED <<navVars, queueVars, envVars>>

NextParse == ApplyParse

SpecParse == InitParse /\ [][NextParse]_vars

\* --- the planner of FtpClient on the directory /a/: the servers of the
\* window's planner, and servers that list bare names, which none of the
\* three patterns matches; b is then a directory holding g or an empty
\* directory
BareListingsA ==
    { <<<<<<"b">>>>, <<<<"f", ".", "t">>>>>>,
      <<<<<<"f", ".", "t">>>>, <<<<"b">>>>>> }
BareListingsB == { <<>>, <<<<<<"g">>>>>> }

ClientServers ==
    PlanServers \cup
    { (Slash :> <<Dir(<<"a">>)>>) @@ (Pa :> la) @@ (Pab :> lb) :
        la \in BareListingsA, lb \in BareListingsB }

InitClient ==
    \E server \in ClientServers, lf \in SUBSET {Pa, Pab}, mf \in SUBSET {Ta, Tab} :
        InitOn(server, lf, mf)

\* FtpClient::downloadDirectory("/a/", TargetDir + "/a", _, taskQueue)
\* applied on a client that is connected or not, with or without a queue
ApplyDownloadDirectory ==
    /\ \E connected, hasQueue, xferOk \in BOOLEAN :
           probe' = [fn |-> "FtpClient_downloadDirectory",
                     connected |-> connected, hasQueue |-> hasQueue,
                     res |-> FtpClient_downloadDirectory(Pa, Ta,
                                 [connected |-> connected, hasQueue |-> hasQueue,
                                  xferOk |-> xferOk],
                                 ClientState(localDirs))]
    /\ UNCHANGED <<navVars, queueVars, envVars>>

NextClient == ApplyDownloadDirectory

SpecClient == InitClient /\ [][NextClient]_vars

\* --- the three transport operations called in a session that is connected
\* or not: listDirectory, listDirectoryForDownload and downloadFile, each
\* from its first statement, with the transfer a downloadFile starts
\* running to its end
GuardTask ==
    DownloadTask(1, <<"/", "r">>, TargetDir \o <<"/", "r">>, FALSE, 1, <<"r">>)

\* a call of MainWindow::listDirectory(path): not connected, it returns
\* false at once
CallListDirectory(path, res) ==
    /\ stack = <<>>
    /\ IF ~isConnected THEN UNCHANGED navVars ELSE listDirectory(path, res)
    /\ probe' = [fn |-> "listDirectory", connected |-> isConnected,
                 ok |-> isConnected /\ lastList'.ok]
    /\ UNCHANGED <<queueVars, envVars>>

\* a call of MainWindow::listDirectoryForDownload(path, targetDir)
CallListDirectoryForDownload(path, targetDir) ==
    /\ stack = <<>>
    /\ probe' = [fn |-> "listDirectoryForDownload", connected |-> isConnected,
                 res |-> listDirectoryForDownload(path, targetDir,
                             PlanState(<<>>, 1, localDirs, 0))]
    /\ listBuffer' = probe'.res.st.buffer
    /\ UNCHANGED <<isConnected, currentPath, directoryHistory, fileModel,
                   lastList, lastConnect, queueVars, envVars>>

\* a call of MainWindow::downloadFile(remotePath, localPath)
CallDownloadFile(outcome) ==
    /\ stack = <<>>
    /\ downloadFileStart(GuardTask, outcome, pendingShots)
    /\ probe' = [fn |-> "downloadFile", connected |-> isConnected,
                 outcome |-> outcome]
    /\ UNCHANGED <<downloadQueue, isDownloading, timerActive, progressDialog,
                   dialogVisible, directoryTaskCount, crashed, localDirs,
                   nextId, started, planned>>
    /\ UNCHANGED <<navVars, envVars>>

InitGuard == \E server \in NavServers : InitOn(server, {}, {})

NextGuard ==
    \/ \E ok \in BOOLEAN, res \in Results : onConnectButtonClicked(ok, res)
    \/ onDisconnectButtonClicked
    \/ \E path \in {Slash, Pa}, res \in Results :
           CallListDirectory(path, res) /\ Len(directoryHistory') <= MaxHistory
    \/ \E path \in {Pa, Pab} : CallListDirectoryForDownload(path, Ta)
    \/ \E outcome \in Outcomes : CallDownloadFile(outcome)
    \/ \E res \in {"ok", "error"} :
           TransferReturns(res, "continue") /\ pendingShots' <= MaxShots

SpecGuard == InitGuard /\ [][NextGuard]_vars

Spec == SpecQueue

----------------------------------------------------------------------------
(* Properties *)

Range(q) == {q[i] : i \in 1..Len(q)}
QueuedIds == {downloadQueue[i].id : i \in 1..Len(downloadQueue)}

\* nothing of the executor is left to run: the process died, or no transfer
\* is on the call stack, the timer is stopped and no continuation is posted
Quiescent ==
    \/ crashed
    \/ stack = <<>> /\ ~timerActive /\ pendingShots = 0

\* C1: the executor starts the tasks in exactly the order of their enqueue:
\* the started ids increase, every queued task was enqueued after every
\* started one and the queue itself is in enqueue order, and a task is
\* passed over only when a cancel removed it from the queue.
C1_FifoExecutionOrder ==
    /\ \A i, j \in 1..Len(started) : i < j => started[i] < started[j]
    /\ \A i, j \in 1..Len(downloadQueue) :
           i < j => downloadQueue[i].id < downloadQueue[j].id
    /\ \A id \in Range(started), q \in QueuedIds : id < q
    /\ \A id \in 1..(nextId - 1) :
           id \in Range(started) \/ id \in QueuedIds \/ id \in events.pending

\* C1 witness: three tasks started, the last from inside a running transfer
C1_Witness == Len(started) >= 3 /\ Len(stack) = 2

\* C2: at most one downloadFile is on the call stack, and while one is,
\* currentDownloadFile is the file that transfer opened.
C2_OneTransferAtATime ==
    /\ Len(stack) <= 1
    /\ Len(stack) = 1 => currentDownloadFile = <<stack[1].task.id>>

\* C4: the cancel handler leaves the queue empty and Idle and undoes no
\* completed download, and no task a cancel found in the queue is ever
\* started.
C4_CancelDrainsQueue ==
    /\ [](\A id \in Range(started) : id \notin events.pending)
    /\ [][events'.cancels > events.cancels =>
            /\ downloadQueue' = <<>>
            /\ ~isDownloading' /\ ~timerActive'
            /\ \A path \in DOMAIN localFiles :
                   localFiles[path] = "complete" =>
                       path \in DOMAIN localFiles' /\ localFiles'[path] = "complete"
            /\ started' = started]_vars

\* C4 witness: a cancel found tasks in the queue after a download completed
C4_Witness ==
    /\ events.cancels > 0 /\ events.pending # {}
    /\ \E path \in DOMAIN localFiles : localFiles[path] = "complete"

\* C5: after a cancel no partial file is left at the local path of a
\* transfer that was in flight.
C5_NoPartialFileAfterCancel ==
    \A path \in events.inflight :
        path \in DOMAIN localFiles => localFiles[path] # "partial"

\* C6: without a cancel, once the executor has nothing left to run, every
\* file task that failed was reported and every task enqueued behind it
\* was executed.
C6_FailureDoesNotStopBatch ==
    (Quiescent /\ events.cancels = 0) =>
        \A f \in events.failed \cup events.errored :
            /\ f \in events.failed
            /\ \A id \in (f + 1)..(nextId - 1) : id \in Range(started)

\* C7: without a cancel, once the executor has nothing left to run, the
\* queue is empty and Idle and the queue-drained notification was emitted.
C7_QueueDrains ==
    (Quiescent /\ events.cancels = 0 /\ nextId > 1) =>
        /\ downloadQueue = <<>>
        /\ ~isDownloading /\ ~timerActive
        /\ events.drained > 0

\* the tasks of the plan that lie at the remote directory P or beneath it
TasksAtOrUnder(P) ==
    {i \in 1..Len(downloadQueue) : IsPrefix(P, downloadQueue[i].remotePath)}

\* the local directories of the planned tree that contain the local path
PlannedAncestors(localPath) ==
    {d \in pathAndAncestors(localParent(localPath)) :
        d = planned.root \/ IsPrefix(planned.root \o Slash, d)}

\* the subdirectories of the planned tree whose listing failed
FailedSubdirs ==
    {P \in planned.listFailed : \E L \in planned.listed : IsProperPrefix(L, P)}

\* the remote path the planner gives the entry e of the listed directory L
EntryPath(L, e) == IF e.isDir THEN L \o e.name \o Slash ELSE L \o e.name

\* every entry of every directory that was listed has its task in the plan
SiblingsPlanned ==
    \A L \in planned.listed :
        \A k \in 1..Len(remote[L]) :
            LET e == decodeLine(remote[L][k])
            IN  ~e.skip =>
                    \E i \in 1..Len(downloadQueue) :
                        /\ downloadQueue[i].remotePath = EntryPath(L, e)
                        /\ downloadQueue[i].isDirectory = e.isDir

\* C3: in a planned directory download, the directory task of every
\* directory of the planned tree that contains a file task's local path
\* stands strictly before that file task.
C3_DirectoryPreOrder ==
    planned.root # <<>> =>
        \A j \in 1..Len(downloadQueue) :
            ~downloadQueue[j].isDirectory =>
                \A d \in PlannedAncestors(downloadQueue[j].localPath) :
                    \E i \in 1..(j - 1) :
                        /\ downloadQueue[i].isDirectory
                        /\ downloadQueue[i].localPath = d

\* C3 witness: the plan holds a file task two directories below the root
C3_Witness ==
    \E j \in 1..Len(downloadQueue) :
        /\ ~downloadQueue[j].isDirectory
        /\ localParent(downloadQueue[j].localPath) = Tab

\* C8 as stated: a subdirectory whose listing failed contributes no task at
\* all, and the entries of every listed directory are all planned.
C8_FailedBranchZeroTasks ==
    /\ \A P \in FailedSubdirs : TasksAtOrUnder(P) = {}
    /\ SiblingsPlanned

\* C8 amended: a directory whose listing failed contributes its own
\* directory task, enqueued before the listing was requested, and nothing
\* beneath it; the entries of every listed directory are all planned.
C8_FailedBranchOnlyItsDirectoryTask ==
    /\ \A P \in planned.listFailed :
           /\ Cardinality(TasksAtOrUnder(P)) = 1
           /\ \A i \in TasksAtOrUnder(P) :
                  /\ downloadQueue[i].remotePath = P
                  /\ downloadQueue[i].isDirectory
    /\ SiblingsPlanned

\* C8 witness: the listing of a subdirectory failed, and an entry that
\* follows it in the listing of its parent was planned
C8_Witness ==
    \E P \in FailedSubdirs :
        \E i, j \in 1..Len(downloadQueue) :
            /\ downloadQueue[i].remotePath = P
            /\ i < j
            /\ ~downloadQueue[j].isDirectory
            /\ downloadQueue[j].remotePath = Pa \o <<"f">>

\* C9: a subdirectory whose local directory could not be created during
\* planning has no task in the plan, neither its own nor one beneath it,
\* and is not listed; the entries of every listed directory are all planned
\* otherwise.
C9_MkdirFailureAbandonsBranch ==
    \A d \in planned.mkdirFailed :
        d # planned.root =>
            /\ \A i \in 1..Len(downloadQueue) :
                   ~IsPrefix(d, downloadQueue[i].localPath)
            /\ \A i \in 1..Len(downloadQueue) :
                   downloadQueue[i].localPath = localParent(d) =>
                       downloadQueue[i].remotePath
                           \o fileName(d) \o Slash
                               \notin planned.listed \cup planned.listFailed

\* C10: a listDirectory call whose LIST fails leaves currentPath and
\* directoryHistory as they were before the call.
C10_FailedListingKeepsNavigation ==
    [][(lastList'.seq # lastList.seq /\ ~lastList'.ok) =>
          /\ currentPath' = currentPath
          /\ directoryHistory' = directoryHistory]_vars

\* C11: the session becomes connected only in a step whose connectToFtp
\* succeeded, and a step whose connectToFtp failed leaves the session
\* disconnected with currentPath, directoryHistory and the displayed rows
\* as they were.
C11_ConnectOnlyOnSuccess ==
    [][/\ (isConnected' /\ ~isConnected) =>
              (lastConnect # "ok" /\ lastConnect' = "ok")
       /\ (lastConnect' = "failed" /\ lastConnect # "failed") =>
              /\ ~isConnected /\ ~isConnected'
              /\ currentPath' = currentPath
              /\ directoryHistory' = directoryHistory
              /\ fileModel' = fileModel]_vars

\* C11 witness: a connect failed
C11_Witness == lastConnect = "failed" /\ ~isConnected

\* C12: in every state, connected or not, the disconnect handler yields the
\* state (disconnected, "/", empty history, no rows) and applying it to its
\* own result changes nothing; every step that disconnects is that handler's.
C12_DisconnectIdempotent ==
    /\ [](/\ afterDisconnect(Session) =
                [isConnected |-> FALSE, currentPath |-> Slash,
                 directoryHistory |-> <<>>, fileModel |-> <<>>]
          /\ afterDisconnect(afterDisconnect(Session)) = afterDisconnect(Session))
    /\ [][(isConnected /\ ~isConnected') =>
              Session' = afterDisconnect(Session)]_vars

\* C12 witness: disconnected after a session that had navigated
C12_Witness ==
    /\ ~isConnected /\ lastConnect = "none"
    /\ lastList # [seq |-> FALSE, ok |-> TRUE]
    /\ currentPath = Slash /\ directoryHistory = <<>> /\ fileModel = <<>>

\* C13: a back step whose listing succeeds, taken with a non-empty history,
\* pops the top of directoryHistory and makes it the current path; taken
\* with an empty history it goes to the lexical parent of currentPath.
C13_GoBackUsesHistory ==
    [][onBackButtonClicked("ok") =>
          IF directoryHistory # <<>>
          THEN /\ currentPath' = directoryHistory[Len(directoryHistory)]
               /\ directoryHistory' =
                      SubSeq(directoryHistory, 1, Len(directoryHistory) - 1)
          ELSE currentPath' = getParentDirectory(currentPath)]_vars

\* the path is "/" followed by segments that each end in a slash: it has a
\* leading and a trailing slash and no empty segment
IsNormalized(path) ==
    /\ startsWith(path, "/") /\ endsWith(path, "/")
    /\ \A i \in 1..(Len(path) - 1) : ~(path[i] = "/" /\ path[i + 1] = "/")

\* C16: for a normalized path other than the root, getParentDirectory
\* returns the normalized prefix left when the last segment and its slash
\* are removed; the root is its own parent; and the window's and the
\* client's functions agree on every input.
C16_ParentDirectory ==
    probe.fn = "getParentDirectory" =>
        /\ probe.window = probe.client
        /\ probe.arg = Slash => probe.window = Slash
        /\ (IsNormalized(probe.arg) /\ probe.arg # Slash) =>
               /\ IsNormalized(probe.window)
               /\ IsProperPrefix(probe.window, probe.arg)
               /\ LET seg == SubSeq(probe.arg, Len(probe.window) + 1,
                                    Len(probe.arg) - 1)
                  IN  \A i \in 1..Len(seg) : seg[i] # "/"

\* C16 witness: the parent of "/a/a/a/" was computed as "/a/a/"
C16_Witness ==
    /\ probe.fn = "getParentDirectory"
    /\ probe.arg = <<"/", "a", "/", "a", "/", "a", "/">>
    /\ probe.window = <<"/", "a", "/", "a", "/">>

\* the name and the kind the first matching pattern gives the line, in the
\* order Unix, Windows, simple, whitespace split
FirstRule(line) ==
    IF unixRe(line).hasMatch
    THEN [rule |-> "unix", name |-> unixRe(line).name,
          isDir |-> unixRe(line).type = "d"]
    ELSE IF windowsRe(line).hasMatch
    THEN [rule |-> "windows", name |-> windowsRe(line).name,
          isDir |-> windowsRe(line).size = TokDIR]
    ELSE IF simpleRe(line).hasMatch
    THEN [rule |-> "simple", name |-> simpleRe(line).name,
          isDir |-> simpleRe(line).type = "d"]
    ELSE IF Len(line) >= 1
    THEN [rule |-> "split", name |-> line[Len(line)],
          isDir |-> ~contains(line[Len(line)], ".")]
    ELSE [rule |-> "none"]

\* C14: no row of the browsing model and no decoded entry of the planner
\* that comes from a server line is named "." or "..".
C14_SpecialEntriesExcluded ==
    probe.fn = "parse" =>
        /\ \A k \in 1..Len(probe.rows) : probe.rows[k].name \notin {Dot, DotDot}
        /\ probe.entry.name \in {Dot, DotDot} => probe.entry.skip

\* C17: the row and the decoded entry of a line are those of the first
\* pattern that matches it, in the order Unix, Windows, simple, whitespace
\* split; a line no pattern takes gives neither.
C17_RecognizerPriority ==
    probe.fn = "parse" =>
        LET r == FirstRule(probe.line)
        IN  IF r.rule = "none"
            THEN probe.rows = <<>> /\ probe.entry.skip
            ELSE /\ Len(probe.rows) = 1
                 /\ probe.rows[1].name = r.name
                 /\ probe.rows[1].type = (IF r.isDir THEN "Directory" ELSE "File")
                 /\ probe.entry.name = r.name
                 /\ probe.entry.isDir = r.isDir

\* C17 witness: a line that the Unix and the Windows pattern both match, to
\* different names, decoded as the Unix pattern does
C17_Witness ==
    /\ probe.fn = "parse"
    /\ unixRe(probe.line).hasMatch /\ windowsRe(probe.line).hasMatch
    /\ unixRe(probe.line).name # windowsRe(probe.line).name
    /\ probe.rows[1].name = unixRe(probe.line).name

\* C18: a line the Unix pattern matches with type character 'd' gives a
\* directory of size 0 whose name and date are the captured texts.
C18_UnixDirectoryLine ==
    (probe.fn = "parse" /\ unixRe(probe.line).hasMatch) =>
        LET u == unixRe(probe.line)
        IN  /\ probe.rows[1].name = u.name
            /\ probe.rows[1].date = u.date
            /\ probe.entry.isDir = (u.type = "d")
            /\ u.type = "d" =>
                   /\ probe.rows[1].type = "Directory"
                   /\ toLongLong(probe.rows[1].size) = 0

\* C19: a line decoded by the Windows pattern is a directory when its third
\* token is <DIR>, and otherwise a file whose size is the value of that
\* token.
C19_WindowsLine ==
    (probe.fn = "parse" /\ FirstRule(probe.line).rule = "windows") =>
        LET w == windowsRe(probe.line)
        IN  /\ probe.rows[1].name = w.name /\ probe.entry.name = w.name
            /\ IF w.size = TokDIR
               THEN /\ probe.rows[1].type = "Directory"
                    /\ probe.entry.isDir
               ELSE /\ probe.rows[1].type = "File"
                    /\ ~probe.entry.isDir
                    /\ toLongLong(probe.rows[1].size) = digitsValue(w.size)
                    /\ probe.entry.fileSize = digitsValue(w.size)

\* C19 witness: "06-12-23 12:00PM 2048 readme.txt" decoded as a file of
\* 2048 bytes
C19_Witness ==
    /\ probe.fn = "parse"
    /\ probe.line = <<<<"0", "6", "-", "1", "2", "-", "2", "3">>,
                      <<"1", "2", ":", "0", "0", "P", "M">>,
                      <<"2", "0", "4", "8">>,
                      <<"r", "e", "a", "d", "m", "e", ".", "t", "x", "t">>>>
    /\ probe.entry = Entry(FALSE, probe.line[4], FALSE, 2048)
    /\ probe.rows[1].type = "File"

\* C15: while a successful listing is shown, the rows are the parsed rows of
\* the server's listing with exactly one row ".." in front of them when the
\* listed path is not "/" and none when it is; a download click on a row
\* named ".." or "." enqueues nothing and starts nothing.
C15_ParentRowAndNoDownload ==
    /\ [](isConnected /\ lastList.ok =>
            LET parsed == parseFtpList(remote[normalize(currentPath)])
                extra == Len(fileModel) - Len(parsed)
            IN  /\ extra = (IF currentPath = Slash THEN 0 ELSE 1)
                /\ extra = 1 => fileModel[1] = Row(DotDot, <<>>, "Directory", <<>>)
                /\ SubSeq(fileModel, extra + 1, Len(fileModel)) = parsed)
    /\ [][(/\ probe' # probe
           /\ probe'.fn = "onDownloadButtonClicked"
           /\ probe'.name \in {Dot, DotDot})
          => UNCHANGED <<downloadQueue, nextId, isDownloading, timerActive,
                         dialogVisible, localDirs>>]_vars

\* C15 witness: in a directory other than the root, whose first row is "..",
\* the download click on ".." has left the queue empty
C15_Witness ==
    /\ isConnected /\ lastList.ok /\ currentPath # Slash
    /\ fileModel[1].name = DotDot
    /\ probe.fn = "onDownloadButtonClicked" /\ probe.name = DotDot
    /\ downloadQueue = <<>> /\ ~isDownloading

\* the plan of the claim, written as a sequence: the directory task of L,
\* then for each entry of R's listing in listing order its file task or the
\* plan of its subdirectory; a directory that cannot be listed has no entry
PlanItem(remotePath, localPath, isDirectory, fileSize) ==
    [remotePath |-> remotePath, localPath |-> localPath,
     isDirectory |-> isDirectory, fileSize |-> fileSize]

RECURSIVE ExpectedPlan(_, _)
RECURSIVE ExpectedEntries(_, _, _)

ExpectedEntries(R, L, k) ==
    IF k > Len(remote[R]) THEN <<>>
    ELSE LET e == decodeLine(remote[R][k])
         IN  (IF e.skip THEN <<>>
              ELSE IF e.isDir
                   THEN ExpectedPlan(R \o e.name \o Slash, L \o Slash \o e.name)
                   ELSE <<PlanItem(R \o e.name, L \o Slash \o e.name, FALSE,
                                   e.fileSize)>>)
             \o ExpectedEntries(R, L, k + 1)

ExpectedPlan(R, L) ==
    <<PlanItem(R, L, TRUE, 0)>>
    \o (IF R \in DOMAIN remote /\ R \notin listFail
        THEN ExpectedEntries(R, L, 1) ELSE <<>>)

\* C20: the queue left by the download click on a directory of the root is
\* the directory task of its local root followed, entry by entry in listing
\* order, by a file task or by a subdirectory's task and whole plan.
C20_RecursivePlanOrder ==
    (/\ probe.fn = "onDownloadButtonClicked"
     /\ planned.root # <<>> /\ planned.root \notin planned.mkdirFailed) =>
        [i \in 1..Len(downloadQueue) |->
            PlanItem(downloadQueue[i].remotePath, downloadQueue[i].localPath,
                     downloadQueue[i].isDirectory, downloadQueue[i].fileSize)]
        = ExpectedPlan(Slash \o probe.name \o Slash,
                       TargetDir \o Slash \o probe.name)

\* C20 witness: /a/ holding f (100 bytes) and b/g (50 bytes) is planned as
\* directory a, file f, directory b, file g
C20_Witness ==
    /\ planned.root = Ta /\ Len(downloadQueue) = 4
    /\ downloadQueue[1].isDirectory /\ downloadQueue[1].localPath = Ta
    /\ ~downloadQueue[2].isDirectory /\ downloadQueue[2].fileSize = 100
    /\ localParent(downloadQueue[2].localPath) = Ta
    /\ downloadQueue[3].isDirectory /\ downloadQueue[3].localPath = Tab
    /\ ~downloadQueue[4].isDirectory /\ downloadQueue[4].fileSize = 50
    /\ localParent(downloadQueue[4].localPath) = Tab

\* C21: the remote path of every task in the download queue starts with "/"
\* and ends with "/" exactly when the task is a directory task.
C21_RemotePathNormalized ==
    \A i \in 1..Len(downloadQueue) :
        /\ startsWith(downloadQueue[i].remotePath, "/")
        /\ endsWith(downloadQueue[i].remotePath, "/") = downloadQueue[i].isDirectory

\* C21 witness: a download started below the root has queued a directory
\* task and a file task
C21_Witness ==
    /\ currentPath # Slash
    /\ \E i, j \in 1..Len(downloadQueue) :
           downloadQueue[i].isDirectory /\ ~downloadQueue[j].isDirectory

\* C22: every task is consumed exactly once: no task is started twice, no
\* task a cancel removed is started, and under fair scheduling of the
\* executor every queued task eventually leaves the queue.
C22_ConsumedExactlyOnce ==
    /\ [](/\ \A i, j \in 1..Len(started) : started[i] = started[j] => i = j
          /\ \A id \in Range(started) : id \notin events.pending
          /\ \A id \in QueuedIds : id \notin Range(started))
    /\ \A id \in 1..MaxTasks :
           (id \in QueuedIds) ~> (id \notin QueuedIds)

\* C23: within one file task the bytesReceived of successive progress
\* reports never decreases, counts from the 0 of the task's start, and
\* never exceeds the number of chunks delivered to the task.
C23_ProgressMonotone ==
    /\ [](\A k \in 1..Len(stack) :
             stack[k].reported >= 0 /\ stack[k].reported <= stack[k].chunks)
    /\ [][\A k \in 1..Len(stack) :
             (k <= Len(stack') /\ stack'[k].task.id = stack[k].task.id) =>
                 stack'[k].reported >= stack[k].reported]_vars

\* C24: for every line that gives a browsing row, each of the two download
\* planners that does not skip the line decodes the same name and the same
\* directory/file decision as the row.
C24_BrowseAndPlanAgree ==
    (probe.fn = "parse" /\ probe.rows # <<>>) =>
        /\ ~probe.entry.skip =>
               /\ probe.entry.name = probe.rows[1].name
               /\ probe.entry.isDir = (probe.rows[1].type = "Directory")
        /\ ~probe.client.skip =>
               /\ probe.client.name = probe.rows[1].name
               /\ probe.client.isDir = (probe.rows[1].type = "Directory")

\* C25: whenever the executor starts a file task, the parent directory of
\* the task's local path exists.
C25_ParentExistsAtStart ==
    [][(started' # started /\ ~Head(downloadQueue).isDirectory) =>
           localParent(Head(downloadQueue).localPath) \in localDirs]_vars

\* C26: a listing requested by navigation (not the one a connect makes)
\* pushes the path it leaves onto the history exactly when it goes to a
\* different path: the history then grows by that one element, and a
\* listing of the current path (refresh) leaves it unchanged.
C26_HistoryPush ==
    [][(lastList' # lastList /\ lastConnect' = lastConnect) =>
           directoryHistory' = IF currentPath' # currentPath
                               THEN Append(directoryHistory, currentPath)
                               ELSE directoryHistory]_vars

\* C26 witness: two navigations pushed two paths and a refresh of the
\* directory reached has not changed the history
C26_Witness ==
    /\ directoryHistory = <<Slash, Pa>> /\ currentPath = Pab
    /\ lastList = [seq |-> FALSE, ok |-> TRUE]

\* C27: the step of a successful connect, the listing of the root it makes
\* included, ends connected at currentPath "/" with an empty history.
C27_ConnectResetsNavigation ==
    [][(lastConnect' = "ok" /\ lastConnect # "ok") =>
           /\ isConnected'
           /\ currentPath' = Slash
           /\ directoryHistory' = <<>>]_vars

\* C27 witness: connected at the root with an empty history after a session
\* in which a ".." row was selected, that is after a navigation below the
\* root, a disconnect and a new connect
C27_Witness ==
    /\ isConnected /\ lastConnect = "ok"
    /\ currentPath = Slash /\ directoryHistory = <<>>
    /\ probe.fn = "onDownloadButtonClicked" /\ probe.name = DotDot

\* C28: whenever no handler of the queue is on the call stack and the queue
\* is not empty, isDownloading is true and the timer is active; and every
\* enqueue appends behind the tasks already queued.
C28_NoStrandedTasks ==
    /\ []((stack = <<>> /\ downloadQueue # <<>>) =>
              (isDownloading /\ timerActive))
    /\ [][nextId' > nextId =>
             /\ IsPrefix(downloadQueue, downloadQueue')
             /\ Len(downloadQueue') = Len(downloadQueue) + (nextId' - nextId)
             /\ isDownloading' /\ timerActive']_vars

\* C28 witness: after a cancel left the queue Idle, a new download was
\* enqueued and the executor runs again
C28_Witness ==
    /\ events.cancels > 0 /\ stack = <<>>
    /\ downloadQueue # <<>> /\ isDownloading /\ timerActive

\* C29: the step that runs a directory task only makes sure the local
\* directory exists (an existing one is left as it is, a missing one is
\* made unless mkpath fails), enters no transfer, touches no file and no
\* byte counter, and posts the continuation that runs the next task.
C29_DirectoryTaskSynchronous ==
    [][(started' # started /\ Head(downloadQueue).isDirectory) =>
           LET dir == Head(downloadQueue).localPath
           IN  /\ stack' = stack
               /\ currentDownloadFile' = currentDownloadFile
               /\ totalBytesReceived' = totalBytesReceived
               /\ localFiles' = localFiles
               /\ events' = events
               /\ localDirs \subseteq localDirs'
               /\ dir \in localDirs => localDirs' = localDirs
               /\ dir \notin mkFail => dir \in localDirs'
               /\ pendingShots' >= 1]_vars

\* C29 witness: the directory tasks of a and of a/b have run, both on
\* directories that already existed, and the continuation is posted
C29_Witness ==
    /\ Len(started) = 2 /\ Tab \in localDirs
    /\ Len(downloadQueue) = 1 /\ ~downloadQueue[1].isDirectory
    /\ stack = <<>> /\ pendingShots >= 1

\* C30: no operation changes downloadQueue without holding downloadMutex.
C30_QueueMutatedUnderMutex == events.unguarded = {}


\* C31: every displayed row is the ".." row in front or the row of a line of
\* the listing the last listDirectory call received, and there are no more
\* rows than that listing has lines (one more with ".."); a failed listing
\* and a disconnect leave no row; and the rows change only in a step that
\* makes a listDirectory call or disconnects, never in one that plans a
\* download.
C31_EntriesReplacedWholesale ==
    /\ [](/\ \A k \in 1..Len(fileModel) :
               \/ /\ k = 1 /\ currentPath # Slash
                  /\ fileModel[k] = Row(DotDot, <<>>, "Directory", <<>>)
               \/ /\ isConnected /\ lastList.ok
                  /\ \E i \in 1..Len(remote[normalize(currentPath)]) :
                         parseLine(remote[normalize(currentPath)][i])
                             = <<fileModel[k]>>
          /\ Len(fileModel) <=
                 (IF isConnected /\ lastList.ok
                  THEN Len(remote[normalize(currentPath)])
                           + (IF currentPath = Slash THEN 0 ELSE 1)
                  ELSE 0))
    /\ [][(lastList' = lastList /\ isConnected' = isConnected) =>
              fileModel' = fileModel]_vars

\* C31 witness: after a connect and after the planning of a directory
\* download, which left the listing of a subdirectory in the buffer and
\* was cancelled, the directory /a/ was listed and its rows are shown
C31_Witness ==
    /\ events.cancels > 0 /\ planned.root # <<>> /\ planned.listed # {}
    /\ isConnected /\ lastList.ok /\ currentPath = Pa
    /\ listBuffer = remote[Pa]
    /\ fileModel = parentRow(Pa) \o parseFtpList(remote[Pa])

\* the final component of a path, a closing slash not counted
basename(path) ==
    fileName(IF endsWith(path, "/") THEN SubSeq(path, 1, Len(path) - 1)
                                    ELSE path)

\* C32: the root task of a directory download, the one task enqueued
\* without a display name, is labelled with the final component of its
\* remote path, the name of the directory.
C32_DefaultDisplayName ==
    \A i \in 1..Len(downloadQueue) :
        (downloadQueue[i].isDirectory /\ downloadQueue[i].localPath = planned.root)
            => /\ downloadQueue[i].displayName # <<>>
               /\ downloadQueue[i].displayName = basename(downloadQueue[i].remotePath)

\* what the server holds behind a line of the listing of R: the entry's name
\* and whether it is a directory, which a bare name does not say and the
\* server's directories do
RemoteEntry(R, line) ==
    LET r == FirstRule(line)
    IN  IF r.rule = "none" THEN [name |-> <<>>, isDir |-> FALSE]
        ELSE [name |-> r.name,
              isDir |-> IF r.rule = "split"
                        THEN (R \o r.name \o Slash) \in DOMAIN remote
                        ELSE r.isDir]

\* the remote files of the subtree of R in depth-first listing order, each
\* with the local path beneath L it is to be saved at; a directory that
\* cannot be listed or made locally contributes none
RECURSIVE RemoteFiles(_, _)
RECURSIVE RemoteFilesFrom(_, _, _)

RemoteFilesFrom(R, L, k) ==
    IF k > Len(remote[R]) THEN <<>>
    ELSE LET e == RemoteEntry(R, remote[R][k])
         IN  (IF e.name \in {<<>>, Dot, DotDot} THEN <<>>
              ELSE IF e.isDir
                   THEN IF (L \o Slash \o e.name) \in mkFail THEN <<>>
                        ELSE RemoteFiles(R \o e.name \o Slash,
                                         L \o Slash \o e.name)
                   ELSE <<[remotePath |-> R \o e.name,
                           localPath |-> L \o Slash \o e.name]>>)
             \o RemoteFilesFrom(R, L, k + 1)

RemoteFiles(R, L) ==
    IF R \in DOMAIN remote /\ R \notin listFail
    THEN RemoteFilesFrom(R, L, 1) ELSE <<>>

\* C33: FtpClient::downloadDirectory given a task queue downloads nothing;
\* the queue it leaves holds one file task for each remote file of the
\* branches it could list and make locally, in depth-first listing order,
\* each under a local directory that exists; and it returns false exactly
\* when a listing or a local directory creation failed.
C33_ClientPlanOnly ==
    (probe.fn = "FtpClient_downloadDirectory" /\ probe.hasQueue) =>
        LET st == probe.res.st
        IN  /\ st.transfers = <<>>
            /\ [i \in 1..Len(st.queue) |->
                   [remotePath |-> st.queue[i].remotePath,
                    localPath |-> st.queue[i].localPath]]
               = (IF probe.connected /\ Ta \notin mkFail
                  THEN RemoteFiles(Pa, Ta) ELSE <<>>)
            /\ \A i \in 1..Len(st.queue) :
                   /\ ~st.queue[i].isDirectory
                   /\ localParent(st.queue[i].localPath) \in st.dirs
            /\ probe.res.ok = (st.listFailed = {} /\ st.mkdirFailed = {})

\* C34: no step emits the queue-drained notification for a batch that was
\* cancelled, that is while no task has been enqueued since the last cancel.
C34_CancelledNotDrained ==
    [][events'.drained > events.drained =>
           events.cancelledAt # nextId]_vars

\* C35: every step in which a downloadFile call reaches its cleanup after
\* curl_easy_perform (it returns, or the process dies in the close) starts
\* with currentDownloadFile being the file that call opened.
C35_CleanupOnOwnFile ==
    [][(Len(stack') < Len(stack) \/ crashed' # crashed) =>
           currentDownloadFile = <<stack[Len(stack)].task.id>>]_vars

\* C36: a step taken while the session is not connected requests no listing
\* (the displayed rows, the receive buffer, the path and the history stay
\* as they are unless the step connects), starts no transfer and creates or
\* writes no local file; and each of listDirectory, listDirectoryForDownload
\* and downloadFile called then reports failure.
C36_NoTransportWhileDisconnected ==
    [][~isConnected =>
          /\ ~isConnected' =>
                 UNCHANGED <<fileModel, listBuffer, lastList, currentPath,
                             directoryHistory>>
          /\ UNCHANGED <<stack, localFiles, currentDownloadFile,
                         totalBytesReceived, localDirs>>
          /\ (probe' # probe /\ probe'.fn = "listDirectory") => ~probe'.ok
          /\ (probe' # probe /\ probe'.fn = "listDirectoryForDownload") =>
                 /\ ~probe'.res.ok
                 /\ probe'.res.st.listed \cup probe'.res.st.listFailed = {}
                 /\ probe'.res.st.queue = <<>>
          /\ (probe' # probe /\ probe'.fn = "downloadFile") =>
                 events'.failed = events.failed \cup {GuardTask.id}]_vars

\* C36 witness: after a session that listed a directory and was
\* disconnected, downloadFile was called, reported the failure and left no
\* local file and no transfer
C36_Witness ==
    /\ ~isConnected /\ lastConnect = "none" /\ lastList.seq
    /\ probe.fn = "downloadFile" /\ ~probe.connected
    /\ GuardTask.id \in events.failed
    /\ localFiles = <<>> /\ stack = <<>>

\* C37: in every state currentPath starts with "/" and ends with "/", so the
\* path a listing is requested for is currentPath itself.
C37_CurrentPathNormalized ==
    /\ startsWith(currentPath, "/")
    /\ endsWith(currentPath, "/")
    /\ normalize(currentPath) = currentPath

\* C37 witness: /a/ reached again from /a/b/, by back or by the ".." row,
\* after /a/b/ was entered from it
C37_Witness ==
    /\ isConnected /\ lastList.ok
    /\ currentPath = Pa
    /\ Len(directoryHistory) >= 3
    /\ directoryHistory[Len(directoryHistory)] = Pab
    /\ directoryHistory[Len(directoryHistory) - 1] = Pa

\* C38: a step that plans a download (it enqueues tasks or runs the
\* directory planner) leaves currentPath, the history, the connection state
\* and the displayed rows as they were.
C38_PlanningKeepsBrowsingState ==
    [][(nextId' > nextId \/ planned' # planned) =>
           UNCHANGED <<currentPath, directoryHistory, isConnected,
                       fileModel>>]_vars

\* C38 witness: back in a directory with a history behind it, a directory
\* download was planned through two levels of listings and the rows are
\* still those of the directory shown
C38_Witness ==
    /\ Cardinality(planned.listed) >= 2 /\ downloadQueue # <<>>
    /\ directoryHistory # <<>> /\ isConnected /\ lastList.ok
    /\ fileModel = parentRow(currentPath)
                       \o parseFtpList(remote[normalize(currentPath)])

\* C39: directoryTaskCount is never negative, neither between two steps nor
\* inside a planning run, and it is 0 after a planning run in which no
\* listing failed.
C39_DirectoryCountBalanced ==
    /\ directoryTaskCount >= 0
    /\ planned.lowCount >= 0
    /\ (/\ planned.root # <<>>
        /\ planned.root \notin planned.mkdirFailed
        /\ planned.listFailed = {}) => directoryTaskCount = 0

\* C39 witness: /a/ and /a/b/ were both listed, none failed, and the count
\* is back to 0
C39_Witness ==
    /\ planned.listed = {Pa, Pab} /\ planned.listFailed = {}
    /\ directoryTaskCount = 0 /\ Len(downloadQueue) >= 2

============================================================================
